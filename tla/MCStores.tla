------------------------------- MODULE MCStores ------------------------------
(***************************************************************************)
(* Two repositories over one ledger, each with two callers on one order    *)
(* whose two Lightning invoices overlap for a second.  Init chooses which  *)
(* of them a behaviour is of, `part`:                                      *)
(*   mysql     transactions that read a snapshot                           *)
(*   supabase  function calls, one on its way at a time, while time passes *)
(*   late      function calls that overtake each other                     *)
(* The tables, the callers and what they were told are the same variables  *)
(* in both, and what only one has stays as it started.                     *)
(***************************************************************************)
EXTENDS SqlLedger, TLC

CONSTANTS h1, h2, order, lightning, w1, w2, database

VARIABLES
    part,
    tries,    \* SupabaseLedger's
    requests  \* SupabaseLedger's

MCHash == {h1, h2}
MCRef == {order}
MCRail == {lightning}
MCWorker == {w1, w2}
MCMinted ==
    (h1 :> [ref |-> order, rail |-> lightning, instrExp |-> 2, invExp |-> 2])
    @@ (h2 :> [ref |-> order, rail |-> lightning, instrExp |-> 3, invExp |-> 3])
MCScanResult == {<<"failed", "none">>}
MCNoLegacy == {}
MCLock == {database}
MCLockOf == [r \in Ref |-> database]
MCSymmetry == Permutations(MCWorker)

Supabase == INSTANCE SupabaseLedger WITH StaleRetries <- 2, MaxRequests <- 1

Late == INSTANCE SupabaseLedger WITH
    MaxClock <- 1, ScanResult <- {}, StaleRetries <- 2, MaxRequests <- 2

ASSUME Supabase!SupabaseAssumption /\ Late!SupabaseAssumption

storeVars == <<sqlVars, tries, requests, part>>

StoresInit ==
    /\ part \in {"mysql", "supabase", "late"}
    /\ SqlInit
    /\ Supabase!SupabaseInit

StoresNext ==
    /\ UNCHANGED part
    /\ \/ part = "mysql" /\ SqlNext /\ UNCHANGED <<tries, requests>>
       \/ part = "supabase" /\ Supabase!SupabaseNext /\ UNCHANGED <<view, draft, also, owner>>
       \/ part = "late" /\ Late!SupabaseNext /\ UNCHANGED <<view, draft, also, owner>>

StoresSpec == StoresInit /\ [][StoresNext]_storeVars
=============================================================================
