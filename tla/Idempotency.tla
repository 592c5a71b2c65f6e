---------------------------- MODULE Idempotency ----------------------------
(***************************************************************************)
(* One Idempotency-Key of one org, and the POST /sessions requests that    *)
(* carry it: claim, work, complete or abandon.  claim() is three           *)
(* statements, the work is a transaction of its own, and so are complete() *)
(* and abandon(): every one of them may find the row changed by the        *)
(* others, and a process may die between any two.                          *)
(*                                                                         *)
(* A slot is a connection of the client; it is used again for the next     *)
(* retry.                                                                  *)
(***************************************************************************)
EXTENDS Naturals, FiniteSets

CONSTANTS
  Slot,      \* the requests that may run at once
  Body,      \* what is asked for, as hashRequest tells it apart
  NoRow      \* the key has no row

VARIABLES
  row,     \* the key's row in idempotency_keys
  reqs,    \* where each request is
  made,    \* sessions created under the key and not given back, up to MaxMade
  slips    \* history: what has gone wrong under the key since it was first used

vars == <<row, reqs, made, slips>>

MaxMade == 2

(* status is status_code, 0 while in flight; stale: created_at is past      *)
(* CLAIM_TTL_SECONDS.                                                       *)
Row == [hash: Body, status: {"in_flight", "done"}, stale: BOOLEAN]

ASSUME IdempotencyAssumption == NoRow \notin Row

Place == {"idle", "insert", "select", "takeover", "work", "complete", "abandon"}

(* late: the key had a stored response before the request began.            *)
Request == [pc: Place, body: Body, late: BOOLEAN]

(* An allocation whose answer was never stored, a claim that outlived its TTL *)
(* with its request still running, a request that found no row to claim.      *)
Slip == {"unanswered", "overtaken", "unclaimed"}

(* The row, and the places of the requests, as the code may leave them. *)
TypeOK ==
  /\ row \in Row \cup {NoRow} /\ reqs \in [Slot -> Request] /\ made \in 0..MaxMade
  /\ slips \subseteq Slip

Init ==
  /\ row = NoRow
  /\ made = 0 /\ slips = {}
  /\ reqs \in [Slot -> [pc: {"idle"}, body: Body, late: {FALSE}]]

Done == row # NoRow /\ row.status = "done"

At(r, pc) == reqs[r].pc = pc

Holding == {r \in Slot : reqs[r].pc \in {"work", "complete", "abandon"}}

Goto(r, pc) == reqs' = [reqs EXCEPT ![r].pc = pc]

-----------------------------------------------------------------------------
(* claim() *)

Begin(r) ==
  /\ At(r, "idle")
  /\ \E b \in Body :
       reqs' = [reqs EXCEPT ![r] = [pc |-> "insert", body |-> b, late |-> Done]]
  /\ UNCHANGED <<row, made, slips>>

(* INSERT ... ON CONFLICT DO NOTHING *)
ClaimInsert(r) ==
  /\ At(r, "insert")
  /\ IF row = NoRow
     THEN /\ row' = [hash |-> reqs[r].body, status |-> "in_flight", stale |-> FALSE]
          /\ Goto(r, "work")
     ELSE Goto(r, "select") /\ UNCHANGED row
  /\ UNCHANGED <<made, slips>>

(* SELECT: no row any more, and the request goes on without one; another     *)
(* body, a conflict; a stored response, replayed; in flight, try to take it. *)
ClaimSelect(r) ==
  /\ At(r, "select")
  /\ Goto(r, CASE row = NoRow -> "work"
               [] row # NoRow /\ row.hash # reqs[r].body -> "idle"
               [] Done /\ row.hash = reqs[r].body -> "idle"
               [] OTHER -> "takeover")
  /\ slips' = IF row = NoRow THEN slips \cup {"unclaimed"} ELSE slips
  /\ UNCHANGED <<row, made>>

(* Mutant: a claim is never taken over. *)
ClaimNeverTaken(r) ==
  /\ At(r, "takeover")
  /\ Goto(r, "idle")
  /\ UNCHANGED <<row, made, slips>>

(* Mutant: a claim is taken over however young it is. *)
ClaimTakenYoung(r) ==
  /\ At(r, "takeover")
  /\ IF row # NoRow /\ ~Done
     THEN row' = [row EXCEPT !.stale = FALSE] /\ Goto(r, "work")
     ELSE Goto(r, "idle") /\ UNCHANGED row
  /\ UNCHANGED <<made, slips>>

(* UPDATE ... WHERE in flight and older than the TTL, or a conflict. *)
ClaimTakeover(r) ==
  /\ At(r, "takeover")
  /\ IF row # NoRow /\ ~Done /\ row.stale
     THEN row' = [row EXCEPT !.stale = FALSE] /\ Goto(r, "work")
     ELSE Goto(r, "idle") /\ UNCHANGED row
  /\ UNCHANGED <<made, slips>>

-----------------------------------------------------------------------------
(* createSession() *)

(* The allocation fails, or its device has no data-plane endpoint and is     *)
(* released again; or it commits.                                            *)
Work(r) ==
  /\ At(r, "work")
  /\ \/ Goto(r, "abandon") /\ UNCHANGED made
     \/ Goto(r, "complete") /\ made' = IF made < MaxMade THEN made + 1 ELSE made
  /\ UNCHANGED <<row, slips>>

(* complete(): by key alone. *)
Complete(r) ==
  /\ At(r, "complete")
  /\ row' = IF row = NoRow THEN row
            ELSE [row EXCEPT !.status = "done"]
  /\ Goto(r, "idle")
  /\ UNCHANGED <<made, slips>>

(* An error after the allocation committed (the host's lookup, complete()     *)
(* itself) is caught like any other, and the session stays.                  *)
CompleteFails(r) ==
  /\ At(r, "complete")
  /\ Goto(r, "abandon")
  /\ slips' = slips \cup {"unanswered"}
  /\ UNCHANGED <<row, made>>

(* Mutant: a stored response is deleted with the claim. *)
AbandonAny(r) ==
  /\ At(r, "abandon")
  /\ row' = NoRow
  /\ Goto(r, "idle")
  /\ UNCHANGED <<made, slips>>

(* abandon(): the row of the key, if it is in flight. *)
Abandon(r) ==
  /\ At(r, "abandon")
  /\ row' = IF Done THEN row ELSE NoRow
  /\ Goto(r, "idle")
  /\ UNCHANGED <<made, slips>>

(* The process dies, or abandon() itself fails: the claim stays. *)
Die(r) ==
  /\ ~At(r, "idle")
  /\ Goto(r, "idle")
  /\ slips' = IF At(r, "complete") THEN slips \cup {"unanswered"} ELSE slips
  /\ UNCHANGED <<row, made>>

(* The claim is older than its TTL. *)
Age ==
  /\ row # NoRow /\ ~Done /\ ~row.stale
  /\ row' = [row EXCEPT !.stale = TRUE]
  /\ slips' = IF Holding # {} THEN slips \cup {"overtaken"} ELSE slips
  /\ UNCHANGED <<reqs, made>>

(* The reaper forgets the key after its retention, long after any request    *)
(* that claimed it has ended; the key is as good as new, and what began      *)
(* before is no longer late.                                                 *)
Purge ==
  /\ row # NoRow /\ (Done \/ row.stale)
  /\ Holding = {}
  /\ row' = NoRow
  /\ reqs' = [q \in Slot |-> [reqs[q] EXCEPT !.late = FALSE]]
  /\ made' = 0 /\ slips' = {}

Next ==
  \/ \E r \in Slot : \/ Begin(r) \/ ClaimInsert(r) \/ ClaimSelect(r) \/ ClaimTakeover(r)
                     \/ Work(r) \/ Complete(r) \/ CompleteFails(r)
                     \/ Abandon(r) \/ Die(r)
  \/ Age \/ Purge

Spec == Init /\ [][Next]_vars

(* The client keeps retrying with the same body, its requests get through    *)
(* the claim, every request that works ends somehow, and time passes.        *)
(* Requests may fail or die for ever, and the reaper need not purge.         *)
Ends(r) == Work(r) \/ Complete(r) \/ CompleteFails(r) \/ Abandon(r) \/ Die(r)

Retry(r) ==
  /\ At(r, "idle") /\ row # NoRow
  /\ reqs' = [reqs EXCEPT ![r] = [pc |-> "insert", body |-> row.hash, late |-> Done]]
  /\ UNCHANGED <<row, made, slips>>

Matching(r) == row # NoRow /\ reqs[r].body = row.hash

FairSpec ==
  /\ Spec
  /\ WF_vars(Age)
  /\ \A r \in Slot : /\ WF_vars(Ends(r))
                     /\ SF_vars(Retry(r)) /\ SF_vars(Matching(r) /\ ClaimInsert(r))
                     /\ SF_vars(Matching(r) /\ ClaimSelect(r)) /\ SF_vars(ClaimTakeover(r))

-----------------------------------------------------------------------------
(* A stored answer is final: a request that begins when the key has one      *)
(* never reaches the allocator, whatever slower requests under the key       *)
(* complete, abandon or leave behind.                                        *)
AnswerIsFinal == \A r \in Slot : reqs[r].late => reqs[r].pc \notin {"work", "complete"}

(* A key is never permanently refused: if its claim's holder dies, some      *)
(* retry gets to work ("an API process killed mid-request does not leave a   *)
(* key permanently unusable").                                               *)
KeyStaysUsable == []<>(row = NoRow \/ Done \/ \E r \in Slot : At(r, "work"))

(* A key is one session however often it is retried, unless an answer was     *)
(* lost after its allocation had committed (the claim is released, or left to *)
(* its TTL, with the session kept), a claim's TTL ran out under a request     *)
(* that was still at work, or a claim was abandoned between another request's *)
(* insert and its select.                                                     *)
OneSessionUnlessSlipped == made > 1 => slips # {}

=============================================================================
