------------------------------ MODULE Documents ------------------------------
(* The names of the columns of a MongoDB document: as the schema infers them   *)
(* (_infer_columns) and as a read gives them (_flatten_doc).                   *)
(* A value is [kind |-> "plain"], [kind |-> "dict", fields] or [kind |->       *)
(* "list", items].  A name is the sequence of keys on the way to the value,    *)
(* with "[]" behind the key of an array.  The key of the document, which both  *)
(* leave as it is or leave out, is left out here.                              *)
EXTENDS Integers, Sequences

CONSTANTS
    Keys,
    MaxDepth,           \* max_depth
    Compounds,          \* bound: the documents and arrays a field may hold
    Others              \* bound: what a value is put beside

Plain1   == [kind |-> "plain"]
Dict(f)  == [kind |-> "dict", fields |-> f]
List1(s) == [kind |-> "list", items |-> s]

FieldValues == {Plain1} \cup Compounds

IsDict(v) == v.kind = "dict"
IsArrayOfDicts(v) == v.kind = "list" /\ v.items # <<>> /\ IsDict(v.items[1])

ASSUME DocumentAssumption ==
    /\ MaxDepth \in Nat
    /\ "[]" \notin Keys
    /\ \A v \in FieldValues :
         /\ IsDict(v) => /\ DOMAIN v.fields \subseteq Keys
                         /\ \A k \in DOMAIN v.fields : v.fields[k] \in FieldValues
         /\ v.kind = "list" => v.items \in Seq(FieldValues)

VARIABLE value          \* that of a field of the document read

DocumentInit == value = Plain1

\* The value becomes a field of a document, or a member of an array.
Enclose(v) == v \in FieldValues /\ value' = v

DocumentNext ==
    \/ \E k \in Keys : Enclose(Dict([x \in {k} |-> value]))
    \/ \E k \in Keys, o \in Others : Enclose(Dict([x \in Keys |-> IF x = k THEN value ELSE o]))
    \/ Enclose(List1(<<value>>))
    \/ \E o \in Others : Enclose(List1(<<value, o>>)) \/ Enclose(List1(<<o, value>>))

DocumentSpec == DocumentInit /\ [][DocumentNext]_value

-----------------------------------------------------------------------------
(* Names are relative to the value here, and levels are counted down from      *)
(* max_depth, where the code carries a prefix and counts its depth.            *)

Below(key, names) == {<<key>> \o name : name \in names}

\* _collect: an array stands for its first element.
InferredNames[levels \in Nat] ==
    [v \in FieldValues |->
        CASE levels > 0 /\ IsDict(v) ->
                UNION {Below(k, InferredNames[levels - 1][v.fields[k]]) : k \in DOMAIN v.fields}
          [] levels > 0 /\ IsArrayOfDicts(v) ->
                LET first == v.items[1].fields
                IN  Below("[]", UNION {Below(k, InferredNames[levels - 1][first[k]]) :
                                         k \in DOMAIN first})
          [] OTHER -> {<<>>}]

Dicts(v) == {v.items[i] : i \in {i \in DOMAIN v.items : IsDict(v.items[i])}}

\* A plausible error: the first element of an array gives its columns.
FlatLeafOfFirst(v, levels) ==
    IF levels > 0 /\ IsArrayOfDicts(v)
    THEN {<<"[]", k>> : k \in DOMAIN v.items[1].fields}
    ELSE {<<>>}

\* The names of a value that is no nested document: an array of documents has
\* one column for each key of any element, whatever its value.
FlatLeaf(v, levels) ==
    IF levels > 0 /\ IsArrayOfDicts(v)
    THEN {<<"[]", k>> : k \in UNION {DOMAIN d.fields : d \in Dicts(v)}}
    ELSE {<<>>}

FlatNames[levels \in Nat] ==
    [v \in FieldValues |->
        IF levels > 0 /\ IsDict(v)
        THEN UNION {Below(k, FlatNames[levels - 1][v.fields[k]]) : k \in DOMAIN v.fields}
        ELSE FlatLeaf(v, levels)]

\* The arrays of documents that a read flattens, each with the levels left.
Arrays[levels \in Nat] ==
    [v \in FieldValues |->
        CASE levels > 0 /\ IsDict(v) ->
                UNION {Arrays[levels - 1][v.fields[k]] : k \in DOMAIN v.fields}
          [] levels > 0 /\ IsArrayOfDicts(v) -> {<<v, levels>>}
          [] OTHER -> {}]

\* Its elements have the keys of the first one, which has no documents in it -
\* or the schema does not look so deep.
Regular(v, levels) ==
    LET first == v.items[1].fields
    IN  /\ \A d \in Dicts(v) : DOMAIN d.fields \subseteq DOMAIN first
        /\ \A k \in DOMAIN first :
                levels = 1 \/ ~(IsDict(first[k]) \/ IsArrayOfDicts(first[k]))

\* The columns a schema shows are those a read returns ("matching column
\* names") exactly if every array of documents is regular.
NamesMatchUnlessNested ==
    InferredNames[MaxDepth][value] = FlatNames[MaxDepth][value]
        <=> \A a \in Arrays[MaxDepth][value] : Regular(a[1], a[2])
=============================================================================
