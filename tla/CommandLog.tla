----------------------------- MODULE CommandLog -----------------------------
(***************************************************************************)
(* What the command authority promises the clients of one subject, without *)
(* transactions, locks or credentials: a subject's commands form one       *)
(* sequence of effects; a command takes effect at most once, under its     *)
(* idempotency key, and only at the revision it expected; and whatever is  *)
(* answered for a key is what its first execution answered.                *)
(***************************************************************************)
EXTENDS Naturals, Sequences

CONSTANTS
    Subjects,    \* guests and players
    Keys,        \* idempotency keys
    Bodies,      \* command name, content version and payload, up to their hash
    None,        \* a key without a receipt
    MaxRevision  \* Number.MAX_SAFE_INTEGER

VARIABLES
    standing,  \* "absent", "live" or "removed"
    effects,   \* the keys of the commands that advanced the subject, in order
    receipts,  \* the receipt kept for each key
    replied    \* the receipts the clients were answered with

logVars == <<standing, effects, receipts, replied>>

Init ==
    /\ standing = [s \in Subjects |-> "absent"]
    /\ effects  = [s \in Subjects |-> <<>>]
    /\ receipts = [s \in Subjects |-> [k \in Keys |-> None]]
    /\ replied  = [s \in Subjects |-> {}]

Admit(s) ==
    /\ standing[s] = "absent"
    /\ standing' = [standing EXCEPT ![s] = "live"]
    /\ UNCHANGED <<effects, receipts, replied>>

(***************************************************************************)
(* A command that has no receipt yet is decided at the revision it         *)
(* expected, the number of effects so far: accepted, the subject advances  *)
(* by this one effect; corrected, there is a receipt and no effect.        *)
(***************************************************************************)
Settle(s, k, b, advanced) ==
    LET now  == Len(effects[s])
        next == IF advanced THEN now + 1 ELSE now
    IN
    /\ standing[s] = "live"
    /\ receipts[s][k] = None
    /\ now < MaxRevision
    /\ receipts' = [receipts EXCEPT ![s][k] =
           [key |-> k, body |-> b, expected |-> now, committed |-> next,
            advanced |-> advanced]]
    /\ replied' = [replied EXCEPT ![s] = @ \cup {receipts'[s][k]}]
    /\ effects' = IF advanced THEN [effects EXCEPT ![s] = Append(@, k)] ELSE effects
    /\ UNCHANGED standing

\* A retry is answered from the receipt.
Replay(s, k) ==
    /\ receipts[s][k] # None
    /\ replied' = [replied EXCEPT ![s] = @ \cup {receipts[s][k]}]
    /\ UNCHANGED <<standing, effects, receipts>>

\* Deletion and claim take the subject with everything it owned.
Remove(s) ==
    /\ standing[s] = "live"
    /\ standing' = [standing EXCEPT ![s] = "removed"]
    /\ effects'  = [effects EXCEPT ![s] = <<>>]
    /\ receipts' = [receipts EXCEPT ![s] = [k \in Keys |-> None]]
    /\ replied'  = [replied EXCEPT ![s] = {}]

Next ==
    \E s \in Subjects :
        \/ Admit(s)
        \/ \E k \in Keys, b \in Bodies, advanced \in BOOLEAN : Settle(s, k, b, advanced)
        \/ \E k \in Keys : Replay(s, k)
        \/ Remove(s)

Spec == Init /\ [][Next]_logVars
=============================================================================
