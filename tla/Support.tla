------------------------------ MODULE Support ------------------------------
(***************************************************************************)
(* One support ticket between a merchant and the administrators            *)
(* (services/api/src/services/supportService.ts and the routes of          *)
(* http/routes/merchant.ts and admin.ts that open a thread). A side's      *)
(* messages are counted; their bodies and order, ownership, the lists and  *)
(* the status, which changes nothing in the counters, are left out.        *)
(***************************************************************************)
EXTENDS Handlers

CONSTANT MaxMessages   \* bound on messages of a side

ASSUME SupportAssumption == MaxMessages \in Nat

Sides == {"merchant", "admin"}

VARIABLES
  ticket,    \* whether the support_ticket has been created
  unread,    \* merchant_unread and admin_unread
  arrived,   \* per side: rows of support_message the other side wrote to it
  sup,       \* per request: where its handler stands, and what it holds
  shown,     \* history: per side, how many of them it has been shown
  muddled    \* history: per side, a post to it overlapped an opening since it
             \* last read everything in peace, or one of them did not end

supVars == <<ticket, unread, arrived, sup, shown, muddled>>

SupSteps == {"idle", "first", "insert", "count", "messages", "reset", "show"}
SupHandler == [at : SupSteps, side : Sides, got : 0 .. MaxMessages]
SupIdle == [at |-> "idle", side |-> "admin", got |-> 0]

SupTypeOK ==
  /\ ticket \in BOOLEAN
  /\ unread \in [Sides -> Nat]
  /\ arrived \in [Sides -> 0 .. MaxMessages]
  /\ sup \in [Requests -> SupHandler]
  /\ shown \in [Sides -> 0 .. MaxMessages]
  /\ muddled \in [Sides -> BOOLEAN]

SupInit ==
  /\ ticket = FALSE
  /\ unread = [s \in Sides |-> 0]
  /\ arrived = [s \in Sides |-> 0]
  /\ sup = [r \in Requests |-> SupIdle]
  /\ shown = [s \in Sides |-> 0]
  /\ muddled = [s \in Sides |-> FALSE]

-----------------------------------------------------------------------------
(* Helpers. A request's side is the one that reads, or is written to.      *)

SupGoto(r, step) == sup' = [sup EXCEPT ![r] = [@ EXCEPT !.at = step]]
SupEnd(r) == sup' = [sup EXCEPT ![r] = SupIdle]
Posting(q, s) == sup[q].at \in {"first", "insert", "count"} /\ sup[q].side = s
Opening(q, s) == sup[q].at \in {"messages", "reset", "show"} /\ sup[q].side = s
On(s) == {q \in Requests : Posting(q, s) \/ Opening(q, s)}
Posted(s) == Cardinality({q \in Requests : sup[q].at = "insert" /\ sup[q].side = s})

-----------------------------------------------------------------------------
(* Posts.                                                                  *)

\* createTicket: the ticket comes with an unread message, then the message.
CreateTicket(r) ==
  /\ ~ticket
  /\ sup[r].at = "idle"
  /\ MaxMessages > 0
  /\ ticket' = TRUE
  /\ unread' = [unread EXCEPT !["admin"] = 1]
  /\ sup' = [sup EXCEPT ![r] = [SupIdle EXCEPT !.at = "first"]]
  /\ UNCHANGED <<arrived, shown, muddled>>

FirstMessage(r) ==
  /\ sup[r].at = "first"
  /\ arrived' = [arrived EXCEPT !["admin"] = @ + 1]
  /\ SupEnd(r)
  /\ UNCHANGED <<ticket, unread, shown, muddled>>

\* addMessage: getTicket, INSERT INTO support_message, and then the counter of
\* the other side.
AddMessage(r, s) ==
  /\ ticket
  /\ sup[r].at = "idle"
  /\ arrived[s] + Posted(s) + Cardinality({q \in Requests : sup[q].at = "first"}) < MaxMessages
  /\ sup' = [sup EXCEPT ![r] = [SupIdle EXCEPT !.at = "insert", !.side = s]]
  /\ muddled' = [muddled EXCEPT ![s] = @ \/ \E q \in Requests : Opening(q, s)]
  /\ UNCHANGED <<ticket, unread, arrived, shown>>

InsertMessage(r) ==
  /\ sup[r].at = "insert"
  /\ arrived' = [arrived EXCEPT ![sup[r].side] = @ + 1]
  /\ SupGoto(r, "count")
  /\ UNCHANGED <<ticket, unread, shown, muddled>>

\* Mutant: the counter of the side that wrote.
CountOwn(r) ==
  /\ sup[r].at = "count"
  /\ unread' = [s \in Sides |-> IF s = sup[r].side THEN unread[s] ELSE unread[s] + 1]
  /\ SupEnd(r)
  /\ UNCHANGED <<ticket, arrived, shown, muddled>>

CountMessage(r) ==
  /\ sup[r].at = "count"
  /\ unread' = [unread EXCEPT ![sup[r].side] = @ + 1]
  /\ SupEnd(r)
  /\ UNCHANGED <<ticket, arrived, shown, muddled>>

-----------------------------------------------------------------------------
(* Opening the thread: getTicket, getMessages, markRead, the answer.       *)

OpenThread(r, s) ==
  /\ ticket
  /\ sup[r].at = "idle"
  /\ sup' = [sup EXCEPT ![r] = [SupIdle EXCEPT !.at = "messages", !.side = s]]
  /\ muddled' = [muddled EXCEPT ![s] = @ \/ On(s) # {}]
  /\ UNCHANGED <<ticket, unread, arrived, shown>>

GetMessages(r) ==
  /\ sup[r].at = "messages"
  /\ sup' = [sup EXCEPT ![r] = [@ EXCEPT !.at = "reset", !.got = arrived[sup[r].side]]]
  /\ UNCHANGED <<ticket, unread, arrived, shown, muddled>>

\* Its first statement, getTicket, reads what nothing depends on.
MarkRead(r) ==
  /\ sup[r].at = "reset"
  /\ unread' = [unread EXCEPT ![sup[r].side] = 0]
  /\ SupGoto(r, "show")
  /\ UNCHANGED <<ticket, arrived, shown, muddled>>

ShowThread(r) ==
  /\ sup[r].at = "show"
  /\ LET s == sup[r].side
     IN /\ shown' = [shown EXCEPT ![s] = IF sup[r].got > @ THEN sup[r].got ELSE @]
        /\ muddled' = [muddled EXCEPT ![s] =
                         @ /\ ~(On(s) = {r} /\ unread[s] = 0 /\ sup[r].got = arrived[s])]
  /\ SupEnd(r)
  /\ UNCHANGED <<ticket, unread, arrived>>

-----------------------------------------------------------------------------
(* Faults.                                                                 *)

\* A statement fails, the answer is lost, the process dies.
SupAbandon(r) ==
  /\ sup[r].at # "idle"
  /\ muddled' = [muddled EXCEPT ![sup[r].side] = TRUE]
  /\ SupEnd(r)
  /\ UNCHANGED <<ticket, unread, arrived, shown>>

SupNext ==
  \E r \in Requests :
    \/ CreateTicket(r) \/ FirstMessage(r) \/ InsertMessage(r) \/ CountMessage(r)
    \/ GetMessages(r) \/ MarkRead(r) \/ ShowThread(r) \/ SupAbandon(r)
    \/ \E s \in Sides : AddMessage(r, s) \/ OpenThread(r, s)

SupSpec == SupInit /\ [][SupNext]_supVars

-----------------------------------------------------------------------------
(* Property.                                                               *)

\* "Unread counters are truthful" (supportService.ts): while nobody posts to a
\* side or opens its thread, its counter is the number of messages it has not
\* been shown, unless a post and an opening overlapped, or one did not end;
\* and an opening in peace makes up for that.
UnreadIsTruthful ==
  \A s \in Sides : On(s) = {} /\ ~muddled[s] => unread[s] + shown[s] = arrived[s]
=============================================================================
