---------------------------- MODULE SupportService ----------------------------
(***************************************************************************)
(* Support tickets and notifications: SupportService's createTicket,       *)
(* addMessage and updateTicketStatus, and NotificationsService's dispatch, *)
(* read marks and broadcast.                                               *)
(*                                                                         *)
(* Only a ticket and its opening message share a transaction.  A reply     *)
(* reads the ticket, reopens it, stores the message and touches the ticket *)
(* in statements of their own, with other handlers in between, and fails   *)
(* where one of them fails.                                                *)
(*                                                                         *)
(* Tickets, messages and notifications are named after the handler that    *)
(* inserts them.                                                           *)
(***************************************************************************)
EXTENDS FiniteSets, SequencesExt

CONSTANTS
    Users,
    Agents,        \* users whose role is SUPER_ADMIN or SUPPORT
    Broadcasters,  \* users whose role is SUPER_ADMIN or FINANCE_ADMIN
    Procs,         \* handlers of requests
    Nobody         \* not a handler, not a user

ASSUME SupportAssumption ==
    /\ Agents \subseteq Users
    /\ Broadcasters \subseteq Users
    /\ Nobody \notin Users \cup Procs

VARIABLES
    pc,       \* where each handler is
    caller,   \* the user each handler serves
    about,    \* the ticket or the notification each handler is about
    wanted,   \* the status each status change asks for
    owner,    \* support_tickets.userId
    status,   \* support_tickets.status
    thread,   \* the support_messages of each ticket, oldest first
    inbox,    \* notifications of each user, by the handler that dispatched them
    audience, \* the users each broadcast is for
    closings, \* history: the status changes that closed a ticket
    known     \* history: the closings each reply could read

requestVars == <<caller, about, wanted>>
ticketVars == <<owner, status, thread, closings, known>>
noticeVars == <<inbox, audience>>
vars == <<pc, requestVars, ticketVars, noticeVars>>

TicketStatus == {"OPEN", "IN_PROGRESS", "RESOLVED", "CLOSED"}
Running == {"create", "reopen", "post", "touch", "update", "notify", "mark", "broadcast"}
Ended == {"answered", "refused", "failed", "lost"}

TypeOK ==
    /\ pc \in [Procs -> {"idle"} \cup Running \cup Ended]
    /\ caller \in [Procs -> Users \cup {Nobody}]
    /\ about \in [Procs -> Procs \cup {Nobody}]
    /\ wanted \in [Procs -> TicketStatus \cup {Nobody}]
    /\ owner \in [Procs -> Users \cup {Nobody}]
    /\ status \in [Procs -> TicketStatus \cup {Nobody}]
    /\ thread \in [Procs -> Seq(Procs)]
    /\ inbox \in [Users -> [Procs -> {"none", "unread", "read"}]]
    /\ audience \in [Procs -> SUBSET Users]
    /\ closings \subseteq Procs
    /\ known \in [Procs -> SUBSET Procs]

Init ==
    /\ pc = [p \in Procs |-> "idle"]
    /\ caller = [p \in Procs |-> Nobody]
    /\ about = [p \in Procs |-> Nobody]
    /\ wanted = [p \in Procs |-> Nobody]
    /\ owner = [p \in Procs |-> Nobody]
    /\ status = [p \in Procs |-> Nobody]
    /\ thread = [p \in Procs |-> <<>>]
    /\ inbox = [u \in Users |-> [p \in Procs |-> "none"]]
    /\ audience = [p \in Procs |-> {}]
    /\ closings = {}
    /\ known = [p \in Procs |-> {}]

At(p, label) == pc[p] = label
Goto(p, label) == pc' = [pc EXCEPT ![p] = label]

Tickets == {t \in Procs : owner[t] # Nobody}

Serve(p, u, x) ==
    /\ At(p, "idle")
    /\ caller' = [caller EXCEPT ![p] = u]
    /\ about' = [about EXCEPT ![p] = x]

-------------------------------------------------------------------------------
(* createTicket *)

CreateTicket(p) ==
    /\ \E u \in Users : Serve(p, u, p)
    /\ Goto(p, "create")
    /\ UNCHANGED <<wanted, ticketVars, noticeVars>>

\* Mutant of InsertTicket: the opening message is stored after the commit.
InsertTicketAlone(p) ==
    /\ At(p, "create")
    /\ owner' = [owner EXCEPT ![p] = caller[p]]
    /\ status' = [status EXCEPT ![p] = "OPEN"]
    /\ Goto(p, "post")
    /\ UNCHANGED <<requestVars, thread, closings, known, noticeVars>>

\* A ticket number that is taken fails the insert as any database error does.
InsertTicket(p) ==
    /\ At(p, "create")
    /\ owner' = [owner EXCEPT ![p] = caller[p]]
    /\ status' = [status EXCEPT ![p] = "OPEN"]
    /\ thread' = [thread EXCEPT ![p] = <<p>>]
    /\ Goto(p, "notify")
    /\ UNCHANGED <<requestVars, closings, known, noticeVars>>

-------------------------------------------------------------------------------
(* addMessage *)

IsAgent(p) == caller[p] \in Agents

\* Mutant of Closed: only a resolved ticket is one to reopen.
ClosedResolvedOnly(s) == s = "RESOLVED"

Closed(s) == s \in {"RESOLVED", "CLOSED"}

\* The ticket is read once: ownership, and whether to reopen, go by that.
AddMessage(p) ==
    /\ \E u \in Users, t \in Tickets :
         /\ Serve(p, u, t)
         /\ Goto(p, CASE u \in Agents -> "post"
                      [] u \notin Agents /\ owner[t] # u -> "refused"
                      [] u \notin Agents /\ owner[t] = u ->
                            IF Closed(status[t]) THEN "reopen" ELSE "post")
         /\ known' = [known EXCEPT ![p] = closings]
    /\ UNCHANGED <<wanted, owner, status, thread, closings, noticeVars>>

\* Mutant of Reopen: a status the schema does not have.
ReopenMistyped(p) ==
    /\ At(p, "reopen")
    /\ status' = [status EXCEPT ![about[p]] = "REOPENED"]
    /\ Goto(p, "post")
    /\ UNCHANGED <<requestVars, owner, thread, closings, known, noticeVars>>

Reopen(p) ==
    /\ At(p, "reopen")
    /\ status' = [status EXCEPT ![about[p]] = "OPEN"]
    /\ Goto(p, "post")
    /\ UNCHANGED <<requestVars, owner, thread, closings, known, noticeVars>>

PostMessage(p) ==
    /\ At(p, "post")
    /\ thread' = [thread EXCEPT ![about[p]] = Append(@, p)]
    /\ Goto(p, "touch")
    /\ UNCHANGED <<requestVars, owner, status, closings, known, noticeVars>>

\* updatedAt only orders the lists of tickets.
TouchTicket(p) ==
    /\ At(p, "touch")
    /\ Goto(p, IF IsAgent(p) /\ owner[about[p]] # caller[p] THEN "notify" ELSE "answered")
    /\ UNCHANGED <<requestVars, ticketVars, noticeVars>>

-------------------------------------------------------------------------------
(* updateTicketStatus *)

UpdateTicketStatus(p) ==
    /\ \E u \in Agents, t \in Tickets, s \in TicketStatus :
         /\ Serve(p, u, t)
         /\ wanted' = [wanted EXCEPT ![p] = s]
    /\ Goto(p, "update")
    /\ UNCHANGED <<ticketVars, noticeVars>>

\* Any status may follow any other.
WriteStatus(p) ==
    /\ At(p, "update")
    /\ status' = [status EXCEPT ![about[p]] = wanted[p]]
    /\ IF Closed(wanted[p])
       THEN Goto(p, "notify") /\ closings' = closings \cup {p}
       ELSE Goto(p, "answered") /\ UNCHANGED closings
    /\ UNCHANGED <<requestVars, owner, thread, known, noticeVars>>

-------------------------------------------------------------------------------
(* NotificationsService *)

\* Mutant of Recipient: whoever caused the notification is told.
RecipientCaller(p) == caller[p]

Recipient(p) == owner[about[p]]

DispatchNotification(p) ==
    /\ At(p, "notify")
    /\ inbox' = [inbox EXCEPT ![Recipient(p)][p] = "unread"]
    /\ Goto(p, "answered")
    /\ UNCHANGED <<requestVars, ticketVars, audience>>

\* The error is swallowed: the caller's work is done.
DispatchFails(p) ==
    /\ At(p, "notify")
    /\ Goto(p, "answered")
    /\ UNCHANGED <<requestVars, ticketVars, noticeVars>>

Received(u) == {n \in Procs : inbox[u][n] # "none"}

\* Of a broadcast every user has a row: n is the one of somebody, u or not.
MarkAsRead(p) ==
    /\ \E u, v \in Users : \E n \in Received(v) :
         /\ Serve(p, u, n)
         /\ Goto(p, CASE u # v -> "refused"
                      [] u = v /\ inbox[v][n] = "read" -> "answered"
                      [] u = v /\ inbox[v][n] = "unread" -> "mark")
    /\ UNCHANGED <<wanted, ticketVars, noticeVars>>

WriteMark(p) ==
    /\ At(p, "mark")
    /\ inbox' = [inbox EXCEPT ![caller[p]][about[p]] = "read"]
    /\ Goto(p, "answered")
    /\ UNCHANGED <<requestVars, ticketVars, audience>>

MarkAllAsRead(p) ==
    /\ \E u \in Users :
         /\ Serve(p, u, p)
         /\ inbox' = [inbox EXCEPT ![u] =
               [n \in Procs |-> IF n \in Received(u) THEN "read" ELSE "none"]]
    /\ Goto(p, "answered")
    /\ UNCHANGED <<wanted, ticketVars, audience>>

\* Accounts come and go at any time: those that are ACTIVE now are any set.
BroadcastSystemMessage(p) ==
    /\ \E u \in Broadcasters : Serve(p, u, p)
    /\ \E A \in SUBSET Users :
         /\ audience' = [audience EXCEPT ![p] = A]
         /\ Goto(p, IF A = {} THEN "answered" ELSE "broadcast")
    /\ UNCHANGED <<wanted, ticketVars, inbox>>

\* createMany: whoever was ACTIVE at the read gets a row, whatever he is now.
InsertBroadcast(p) ==
    /\ At(p, "broadcast")
    /\ inbox' = [u \in Users |->
          IF u \in audience[p] THEN [inbox[u] EXCEPT ![p] = "unread"] ELSE inbox[u]]
    /\ Goto(p, "answered")
    /\ UNCHANGED <<requestVars, ticketVars, audience>>

-------------------------------------------------------------------------------
(* Faults *)

\* A statement fails, and what the handler wrote before stays.
Fail(p) ==
    /\ pc[p] \in Running \ {"notify"}
    /\ Goto(p, "failed")
    /\ UNCHANGED <<requestVars, ticketVars, noticeVars>>

Crash ==
    /\ \E p \in Procs : pc[p] \in Running
    /\ pc' = [p \in Procs |-> IF pc[p] \in Running THEN "lost" ELSE pc[p]]
    /\ UNCHANGED <<requestVars, ticketVars, noticeVars>>

Terminated ==
    /\ \A p \in Procs : pc[p] \in Ended
    /\ UNCHANGED vars

Next ==
    \/ \E p \in Procs :
         \/ CreateTicket(p) \/ InsertTicket(p)
         \/ AddMessage(p) \/ Reopen(p) \/ PostMessage(p) \/ TouchTicket(p)
         \/ UpdateTicketStatus(p) \/ WriteStatus(p)
         \/ DispatchNotification(p) \/ DispatchFails(p)
         \/ MarkAsRead(p) \/ WriteMark(p) \/ MarkAllAsRead(p)
         \/ BroadcastSystemMessage(p) \/ InsertBroadcast(p)
         \/ Fail(p)
    \/ Crash
    \/ Terminated

Spec == Init /\ [][Next]_vars

-------------------------------------------------------------------------------
(* Properties *)

\* Every thread begins with the message its owner opened the ticket with and
\* goes on with replies of its owner or of agents, each of them once: nobody
\* ever sees a ticket without a message, wherever its handler failed.
ThreadsAreWhole ==
    \A t \in Tickets :
        /\ thread[t] # <<>>
        /\ Head(thread[t]) = t
        /\ IsInjective(thread[t])
        /\ \A p \in ToSet(thread[t]) : caller[p] = owner[t] \/ IsAgent(p)

\* A customer's reply is in a closed ticket only if an agent closed it after
\* the reply was read: what an agent closed before is reopened.
NoReplyIsBuried ==
    \A t \in Tickets : \A p \in ToSet(thread[t]) \ {t} :
        ~ IsAgent(p) /\ status[t] \in {"RESOLVED", "CLOSED"} =>
            \E c \in closings \ known[p] : about[c] = t

\* What a user is told has happened and concerns him: his ticket was opened,
\* an agent's reply is in its thread or it has been closed, whatever failed
\* in between; a broadcast reaches those it was for.
NotifiedIsTrue ==
    \A u \in Users : \A p \in Received(u) :
        \/ u \in audience[p]
        \/ /\ owner[about[p]] = u
           /\ \/ about[p] = p
              \/ p \in ToSet(thread[about[p]]) /\ IsAgent(p) /\ caller[p] # u
              \/ p \in closings
===============================================================================
