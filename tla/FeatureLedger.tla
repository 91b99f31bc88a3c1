--------------------------- MODULE FeatureLedger ---------------------------
(***************************************************************************)
(* What the event path of WatchNext promises about a user's features,      *)
(* without brokers, consumers or Redis keys: an event that was offered is  *)
(* folded into its user's features at most once per grant of its id, at    *)
(* the end of the ledger, and what was folded stays folded.  A grant is a  *)
(* successful claim of the id; a second grant needs the first to lapse     *)
(* (the seven-day deduplication window).  An event may never be folded:    *)
(* the promise is at-most-once, not exactly-once.                          *)
(***************************************************************************)
EXTENDS Naturals, Sequences, Functions

CONSTANTS
    Event,      \* event ids
    User,       \* user ids
    UserOf      \* UserOf[e]: the user an event is about

VARIABLES
    offered,    \* the events the log has carried so far
    lapsed,     \* lapsed[e]: how often the claim on e has expired
    ledger      \* ledger[u]: the grants folded into u's features, in order

ledgerVars == <<offered, lapsed, ledger>>

LedgerInit ==
    /\ offered = {}
    /\ lapsed = [e \in Event |-> 0]
    /\ ledger = [u \in User |-> <<>>]

Offer(e) ==
    /\ offered' = offered \cup {e}
    /\ UNCHANGED <<lapsed, ledger>>

\* The n-th grant of e is folded into the features of e's user.
Fold(e, n) ==
    LET u == UserOf[e] IN
    /\ e \in offered
    /\ n \in 0..lapsed[e]
    /\ <<e, n>> \notin Range(ledger[u])
    /\ ledger' = [ledger EXCEPT ![u] = Append(@, <<e, n>>)]
    /\ UNCHANGED <<offered, lapsed>>

LapseOf(e) ==
    /\ lapsed' = [lapsed EXCEPT ![e] = @ + 1]
    /\ UNCHANGED <<offered, ledger>>

LedgerNext ==
    \E e \in Event :
        \/ Offer(e)
        \/ \E n \in 0..lapsed[e] : Fold(e, n)
        \/ LapseOf(e)

LedgerSpec == LedgerInit /\ [][LedgerNext]_ledgerVars
=============================================================================
