------------------------------ MODULE MCServices ------------------------------
(* Instances of RateLimiter, Sources, Accounts and TableStats for TLC.  They   *)
(* share nothing: a behaviour explores one of them, which is its part, while   *)
(* the others wait in an initial state.                                        *)
EXTENDS RateLimiter, Sources, Accounts, TableStats, TLC

VARIABLE part

OneTwoThree == [i \in 1..3 |-> i]
FileSource  == [type |-> "file", present |-> TRUE, version |-> 0]
SameAddress == [p \in People |-> CHOOSE e \in Addresses : TRUE]
EmptyTable  == [r \in {} |-> 0]

ServicesInit ==
    /\ part \in {"limits", "sources", "accounts", "stats"}
    /\ Init
    /\ part # "sources" => kind = [r \in Callers |-> "query"] /\ source = FileSource
    /\ SourcesInit
    /\ part # "accounts" => unique = TRUE /\ address = SameAddress
    /\ AccountsInit
    /\ part # "stats" => kindOfTable = "mongodb" /\ changed = EmptyTable
    /\ StatsInit

ServicesNext ==
    /\ UNCHANGED part
    /\ \/ part = "limits" /\ Next /\ UNCHANGED <<sourceVars, accountVars, statVars>>
       \/ part = "sources" /\ SourcesNext /\ UNCHANGED <<vars, accountVars, statVars>>
       \/ part = "accounts" /\ AccountsNext /\ UNCHANGED <<vars, sourceVars, statVars>>
       \/ part = "stats" /\ StatsNext /\ UNCHANGED <<vars, sourceVars, accountVars>>

ServicesSpec == ServicesInit /\ [][ServicesNext]_<<part, vars, sourceVars, accountVars, statVars>>

Symmetry == Permutations(Callers)
=============================================================================
