------------------------------ MODULE OneVault ------------------------------
(***************************************************************************)
(* What InternalAccountsService promises: a currency gets one vault, once, *)
(* and whoever is told of a vault of that currency is told of that one.    *)
(* A vault is a row [id, currency]; its id is the call that created it.    *)
(***************************************************************************)
CONSTANTS Call, Currency

VARIABLES
  vaults, \* the vaults there are
  told    \* the vaults callers have been told of

vars == <<vaults, told>>

Init == vaults = {} /\ told = {}

\* The first row of a currency, under an id that no vault has.
Create(i, k) ==
  /\ \A v \in vaults : v.id # i /\ v.currency # k
  /\ vaults' = vaults \cup {[id |-> i, currency |-> k]}
  /\ UNCHANGED told

Tell(v) == told' = told \cup {v} /\ UNCHANGED vaults

Next == \/ \E i \in Call, k \in Currency : Create(i, k)
        \/ \E v \in vaults : Tell(v)

Spec == Init /\ [][Next]_vars

=============================================================================
