------------------------- MODULE SupportServiceProofs -------------------------
(***************************************************************************)
(* Threads, reopened tickets and notifications are right for every number  *)
(* of users, agents and handlers.  The properties speak of what is stored; *)
(* IInv adds what a handler knows where it stands.                         *)
(***************************************************************************)
EXTENDS SupportService, TLAPS

\* What a handler has inserted, and what it is about, at each place.
Standing(p) ==
    /\ At(p, "idle") => p \notin closings /\ \A u \in Users : inbox[u][p] = "none"
    /\ pc[p] \in {"idle", "create"} => owner[p] = Nobody
    /\ ~ At(p, "idle") => caller[p] \in Users /\ about[p] \in Procs
    /\ At(p, "create") => about[p] = p
    /\ pc[p] \in {"reopen", "post", "touch", "update", "notify"} => about[p] \in Tickets
    /\ At(p, "touch") => p \in ToSet(thread[about[p]])
    /\ At(p, "update") => wanted[p] \in TicketStatus /\ p \notin closings
    /\ At(p, "mark") => inbox[caller[p]][about[p]] # "none"

\* A message is in the one thread its handler is about, after it was posted.
Posted(p, t) ==
    p \in ToSet(thread[t]) =>
        about[p] = t /\ t \in Tickets /\ pc[p] \in {"touch", "notify"} \cup Ended

\* Who is about to post may.
Entitled(p) ==
    pc[p] \in {"reopen", "post"} => caller[p] = owner[about[p]] \/ IsAgent(p)

\* A closing has closed its ticket.
Closing(c) == about[c] \in Tickets /\ pc[c] \in {"notify"} \cup Ended

\* A reply that is posted, or about to be, is not buried.
Heard(p, t) ==
    about[p] = t /\ (At(p, "post") \/ p \in ToSet(thread[t])) /\ p # t
        /\ ~ IsAgent(p) /\ status[t] \in {"RESOLVED", "CLOSED"}
      => \E c \in closings \ known[p] : about[c] = t

\* What a handler is about to tell is true.
Deserved(p) ==
    At(p, "notify") =>
        \/ about[p] = p
        \/ p \in ToSet(thread[about[p]]) /\ IsAgent(p) /\ caller[p] # owner[about[p]]
        \/ p \in closings

IInv ==
    /\ TypeOK
    /\ \A p \in Procs : Standing(p)
    /\ \A p, t \in Procs : Posted(p, t)
    /\ \A p \in Procs : Entitled(p)
    /\ \A c \in closings : Closing(c)
    /\ \A p \in Procs : known[p] \subseteq closings
    /\ ThreadsAreWhole
    /\ \A p, t \in Procs : Heard(p, t)
    /\ \A p \in Procs : Deserved(p)
    /\ NotifiedIsTrue

\* IInv holds before the first request.
THEOREM SupportInit == Init => IInv
  <1> SUFFICES ASSUME Init PROVE IInv
    OBVIOUS
  <1>1. TypeOK
    BY SupportAssumption DEF Init, TypeOK
  <1>2. \A t \in Procs : ToSet(thread[t]) = {}
    BY DEF Init, ToSet
  <1>3. Tickets = {} /\ \A u \in Users : Received(u) = {}
    BY DEF Init, Tickets, Received
  <1> QED
    BY <1>1, <1>2, <1>3, SupportAssumption
    DEF Init, IInv, Standing, Posted, Entitled, Closing, ThreadsAreWhole, Heard, Deserved,
        NotifiedIsTrue, At

\* What appending a message does to a thread.
LEMMA Appended ==
    ASSUME NEW s \in Seq(Procs), NEW e \in Procs
    PROVE  /\ ToSet(Append(s, e)) = ToSet(s) \cup {e}
           /\ s # <<>> => Append(s, e) # <<>> /\ Head(Append(s, e)) = Head(s)
           /\ IsInjective(s) /\ e \notin ToSet(s) => IsInjective(Append(s, e))
  <1>1. Len(Append(s, e)) = Len(s) + 1
    OBVIOUS
  <1>2. \A i \in 1..Len(s) : Append(s, e)[i] = s[i]
    OBVIOUS
  <1>3. Append(s, e)[Len(s) + 1] = e
    OBVIOUS
  <1>4. ToSet(Append(s, e)) = ToSet(s) \cup {e}
    BY <1>1, <1>2, <1>3 DEF ToSet
  <1>5. IsInjective(s) /\ e \notin ToSet(s) => IsInjective(Append(s, e))
    BY <1>1, <1>2, <1>3 DEF ToSet, IsInjective
  <1> QED
    BY <1>1, <1>2, <1>4, <1>5

\* What is in a sequence over a set is in the set.
LEMMA ElementsOf == ASSUME NEW S, NEW s \in Seq(S) PROVE ToSet(s) \subseteq S
  BY DEF ToSet

\* Threads stay whole while nothing is posted and only idle handlers get a caller.
LEMMA ThreadsStay ==
    ASSUME IInv, UNCHANGED <<owner, thread>>,
           \A q \in Procs : ~ At(q, "idle") => caller'[q] = caller[q]
    PROVE  ThreadsAreWhole'
  <1> SUFFICES ASSUME NEW t \in Tickets
               PROVE  /\ thread[t] # <<>> /\ Head(thread[t]) = t /\ IsInjective(thread[t])
                      /\ \A q \in ToSet(thread[t]) : caller'[q] = owner[t] \/ IsAgent(q)'
    BY DEF ThreadsAreWhole, Tickets
  <1>1. \A q \in ToSet(thread[t]) : q \in Procs /\ ~ At(q, "idle")
    BY ElementsOf DEF IInv, TypeOK, Posted, Tickets, At, Ended
  <1> QED
    BY <1>1 DEF IInv, ThreadsAreWhole, IsAgent

\* A request for a ticket keeps IInv: nothing is named after its handler yet.
LEMMA CreateTicketStep ==
    ASSUME IInv, NEW p \in Procs, CreateTicket(p)
    PROVE  IInv'
  <1> USE DEF IInv, TypeOK, requestVars, ticketVars, noticeVars, At, Running,
             Ended, Tickets, Goto, Serve, CreateTicket
  <1>1. TypeOK'
    OBVIOUS
  <1>2. \A q \in Procs : Standing(q)'
    BY DEF Standing
  <1>3. \A q, t \in Procs : Posted(q, t)'
    BY DEF Posted
  <1>4. \A q \in Procs : Entitled(q)'
    BY DEF Entitled, IsAgent
  <1>5. (\A c \in closings : Closing(c))' /\ (\A q \in Procs : known[q] \subseteq closings)'
    BY DEF Closing
  <1>6. ThreadsAreWhole'
    BY ThreadsStay
  <1>7. \A q, t \in Procs : Heard(q, t)'
    BY DEF Standing, Heard, IsAgent
  <1>8. \A q \in Procs : Deserved(q)'
    BY DEF Deserved, IsAgent
  <1>9. NotifiedIsTrue'
    BY DEF Standing, NotifiedIsTrue, Received, IsAgent
  <1> QED
    BY <1>1, <1>2, <1>3, <1>4, <1>5, <1>6, <1>7, <1>8, <1>9

\* The ticket and its opening message keep IInv: the thread is whole at once.
LEMMA InsertTicketStep ==
    ASSUME IInv, NEW p \in Procs, InsertTicket(p)
    PROVE  IInv'
  <1> USE DEF IInv, TypeOK, requestVars, ticketVars, noticeVars, At, Running,
             Ended, Tickets, Goto, Serve, InsertTicket
  <1>t. Tickets' = Tickets \cup {p} /\ p \notin Tickets
    BY SupportAssumption DEF Standing
  <1>o. <<p>> \in Seq(Procs) /\ ToSet(<<p>>) = {p} /\ IsInjective(<<p>>)
    BY DEF ToSet, IsInjective
  <1>s. \A t \in Procs : ToSet(thread'[t]) = IF t = p THEN {p} ELSE ToSet(thread[t])
    BY <1>o
  <1>1. TypeOK'
    BY DEF TicketStatus
  <1>2. \A q \in Procs : Standing(q)'
    BY <1>t DEF Standing
  <1>3. \A q, t \in Procs : Posted(q, t)'
    BY <1>s, <1>t DEF Standing, Posted
  <1>4. \A q \in Procs : Entitled(q)'
    BY DEF Standing, Entitled, IsAgent
  <1>5. (\A c \in closings : Closing(c))' /\ (\A q \in Procs : known[q] \subseteq closings)'
    BY <1>t DEF Closing
  <1>6. ThreadsAreWhole'
    <2> SUFFICES ASSUME NEW t \in Tickets \cup {p}
                 PROVE  /\ thread'[t] # <<>> /\ Head(thread'[t]) = t /\ IsInjective(thread'[t])
                        /\ \A q \in ToSet(thread'[t]) : caller[q] = owner'[t] \/ IsAgent(q)
      BY DEF ThreadsAreWhole, IsAgent
    <2>1. CASE t = p
      BY <1>o, <1>s, <2>1
    <2>2. CASE t # p
      <3>1. thread'[t] = thread[t] /\ owner'[t] = owner[t] /\ t \in Tickets
        BY <2>2
      <3> QED
        BY <3>1 DEF ThreadsAreWhole
    <2> QED
      BY <2>1, <2>2
  <1>7. \A q, t \in Procs : Heard(q, t)'
    BY DEF Heard, IsAgent
  <1>8. \A q \in Procs : Deserved(q)'
    BY DEF Standing, Deserved, IsAgent
  <1>9. NotifiedIsTrue'
    BY <1>t, SupportAssumption DEF NotifiedIsTrue, Received, IsAgent
  <1> QED
    BY <1>1, <1>2, <1>3, <1>4, <1>5, <1>6, <1>7, <1>8, <1>9

\* Reading the ticket keeps IInv: known is every closing there is.
LEMMA AddMessageStep ==
    ASSUME IInv, NEW p \in Procs, AddMessage(p)
    PROVE  IInv'
  <1> USE DEF IInv, TypeOK, requestVars, ticketVars, noticeVars, At, Running,
             Ended, Tickets
  <1>t. PICK u \in Users, t \in Tickets :
          /\ Serve(p, u, t)
          /\ Goto(p, CASE u \in Agents -> "post"
                       [] u \notin Agents /\ owner[t] # u -> "refused"
                       [] u \notin Agents /\ owner[t] = u ->
                             IF Closed(status[t]) THEN "reopen" ELSE "post")
          /\ known' = [known EXCEPT ![p] = closings]
    BY DEF AddMessage
  <1>s. /\ At(p, "idle")
        /\ caller' = [caller EXCEPT ![p] = u]
        /\ about' = [about EXCEPT ![p] = t]
        /\ known' = [known EXCEPT ![p] = closings]
    BY <1>t DEF Serve
  <1>a. PICK l \in {"post", "reopen", "refused"} :
          /\ pc' = [pc EXCEPT ![p] = l]
          /\ l # "refused" => u \in Agents \/ owner[t] = u
          /\ l = "post" /\ u \notin Agents => status[t] \notin {"RESOLVED", "CLOSED"}
    BY <1>t DEF Goto, Closed
  <1>n. t # p
    BY <1>s DEF Standing
  <1>u. UNCHANGED <<wanted, owner, status, thread, closings, inbox, audience>>
    BY DEF AddMessage
  <1>1. TypeOK'
    BY <1>s, <1>a, <1>u
  <1>2. \A q \in Procs : Standing(q)'
    BY <1>s, <1>a, <1>u DEF Standing
  <1>3. \A q, x \in Procs : Posted(q, x)'
    BY <1>s, <1>a, <1>u DEF Posted
  <1>4. \A q \in Procs : Entitled(q)'
    BY <1>s, <1>a, <1>u DEF Entitled, IsAgent
  <1>5. (\A c \in closings : Closing(c))' /\ (\A q \in Procs : known[q] \subseteq closings)'
    BY <1>s, <1>a, <1>u DEF Closing
  <1>6. ThreadsAreWhole'
    BY <1>s, <1>u, ThreadsStay
  <1>7. \A q, x \in Procs : Heard(q, x)'
    <2> SUFFICES ASSUME NEW q \in Procs, NEW x \in Procs, Heard(q, x)
                 PROVE  Heard(q, x)'
      OBVIOUS
    <2>1. CASE q = p
      <3>1. p \notin ToSet(thread[x])
        BY <1>s DEF Posted
      <3> QED
        BY <2>1, <3>1, <1>s, <1>a, <1>n, <1>u DEF Heard, IsAgent
    <2>2. CASE q # p
      <3>1. /\ pc'[q] = pc[q] /\ caller'[q] = caller[q] /\ about'[q] = about[q]
            /\ known'[q] = known[q]
        BY <2>2, <1>s, <1>a
      <3>2. \A c \in closings : about'[c] = about[c]
        BY <1>s DEF Closing
      <3> QED
        BY <3>1, <3>2, <1>u DEF Heard, IsAgent
    <2> QED
      BY <2>1, <2>2
  <1>8. \A q \in Procs : Deserved(q)'
    BY <1>s, <1>a, <1>u DEF Deserved, IsAgent
  <1>9. NotifiedIsTrue'
    BY <1>s, <1>u DEF Standing, NotifiedIsTrue, Received, IsAgent
  <1> QED
    BY <1>1, <1>2, <1>3, <1>4, <1>5, <1>6, <1>7, <1>8, <1>9

\* Reopening keeps IInv: a ticket that is OPEN buries no reply.
LEMMA ReopenStep ==
    ASSUME IInv, NEW p \in Procs, Reopen(p)
    PROVE  IInv'
  <1> USE DEF IInv, TypeOK, requestVars, ticketVars, noticeVars, At, Running,
             Ended, Tickets, Goto, Serve, Reopen
  <1>1. TypeOK'
    BY DEF TicketStatus
  <1>2. \A q \in Procs : Standing(q)'
    BY DEF Standing
  <1>3. \A q, t \in Procs : Posted(q, t)'
    BY DEF Posted
  <1>4. \A q \in Procs : Entitled(q)'
    BY DEF Entitled, IsAgent
  <1>5. (\A c \in closings : Closing(c))' /\ (\A q \in Procs : known[q] \subseteq closings)'
    BY DEF Closing
  <1>6. ThreadsAreWhole'
    BY DEF ThreadsAreWhole, IsAgent
  <1>7. \A q, t \in Procs : Heard(q, t)'
    BY DEF Heard, IsAgent
  <1>8. \A q \in Procs : Deserved(q)'
    BY DEF Deserved, IsAgent
  <1>9. NotifiedIsTrue'
    BY DEF NotifiedIsTrue, Received, IsAgent
  <1> QED
    BY <1>1, <1>2, <1>3, <1>4, <1>5, <1>6, <1>7, <1>8, <1>9

\* Storing a reply keeps IInv: its handler may post, and posts once.
LEMMA PostMessageStep ==
    ASSUME IInv, NEW p \in Procs, PostMessage(p)
    PROVE  IInv'
  <1> USE DEF IInv, TypeOK, requestVars, ticketVars, noticeVars, At, Running,
             Ended, Tickets, Goto, Serve, PostMessage
  <1>t. about[p] \in Tickets /\ about[p] \in Procs /\ Tickets' = Tickets
    BY DEF Standing
  <1>s. \A t \in Procs :
          thread'[t] = IF t = about[p] THEN Append(thread[t], p) ELSE thread[t]
    OBVIOUS
  <1>a. \A t \in Procs :
          ToSet(thread'[t]) = ToSet(thread[t]) \cup (IF t = about[p] THEN {p} ELSE {})
    BY Appended
  <1>n. \A t \in Procs : p \notin ToSet(thread[t])
    BY DEF Posted
  <1>1. TypeOK'
    BY <1>t
  <1>2. \A q \in Procs : Standing(q)'
    BY <1>a, <1>n DEF Standing
  <1>3. \A q, t \in Procs : Posted(q, t)'
    BY <1>t, <1>a DEF Posted
  <1>4. \A q \in Procs : Entitled(q)'
    BY DEF Entitled, IsAgent
  <1>5. (\A c \in closings : Closing(c))' /\ (\A q \in Procs : known[q] \subseteq closings)'
    BY DEF Closing
  <1>6. ThreadsAreWhole'
    <2> SUFFICES ASSUME NEW t \in Tickets
                 PROVE  /\ thread'[t] # <<>> /\ Head(thread'[t]) = t /\ IsInjective(thread'[t])
                        /\ \A q \in ToSet(thread'[t]) : caller[q] = owner[t] \/ IsAgent(q)
      BY DEF ThreadsAreWhole, IsAgent
    <2>1. /\ thread[t] # <<>> /\ Head(thread[t]) = t /\ IsInjective(thread[t])
          /\ \A q \in ToSet(thread[t]) : caller[q] = owner[t] \/ IsAgent(q)
      BY DEF ThreadsAreWhole
    <2>2. CASE t = about[p]
      <3>1. thread'[t] = Append(thread[t], p) /\ thread[t] \in Seq(Procs)
        BY <2>2
      <3>2. caller[p] = owner[t] \/ IsAgent(p)
        BY <2>2 DEF Entitled
      <3>3. p \in Procs /\ t \in Procs /\ p \notin ToSet(thread[t])
        BY <1>n
      <3>4. /\ ToSet(thread'[t]) = ToSet(thread[t]) \cup {p}
            /\ thread'[t] # <<>> /\ Head(thread'[t]) = Head(thread[t])
            /\ IsInjective(thread'[t])
        BY ONLY <2>1, <3>1, <3>3, Appended
      <3> QED
        BY ONLY <2>1, <3>2, <3>4
    <2>3. CASE t # about[p]
      BY <2>1, <2>3
    <2> QED
      BY <2>2, <2>3
  <1>7. \A q, t \in Procs : Heard(q, t)'
    <2> SUFFICES ASSUME NEW q \in Procs, NEW t \in Procs,
                        At(q, "post") \/ q \in ToSet(thread[t]) => Heard(q, t)
                 PROVE  Heard(q, t)'
      OBVIOUS
    <2>1. At(q, "post")' => At(q, "post")
      OBVIOUS
    <2>2. q \in ToSet(thread'[t]) /\ about[q] = t => At(q, "post") \/ q \in ToSet(thread[t])
      BY <1>a
    <2>3. UNCHANGED <<about, caller, status, closings, known>>
      OBVIOUS
    <2> QED
      BY <2>1, <2>2, <2>3 DEF Heard, IsAgent
  <1>8. \A q \in Procs : Deserved(q)'
    BY <1>a DEF Deserved, IsAgent
  <1>9. NotifiedIsTrue'
    BY <1>a DEF NotifiedIsTrue, Received, IsAgent
  <1> QED
    BY <1>1, <1>2, <1>3, <1>4, <1>5, <1>6, <1>7, <1>8, <1>9

\* The end of a reply keeps IInv: only an agent goes on to notify.
LEMMA TouchTicketStep ==
    ASSUME IInv, NEW p \in Procs, TouchTicket(p)
    PROVE  IInv'
  <1> USE DEF IInv, TypeOK, requestVars, ticketVars, noticeVars, At, Running,
             Ended, Tickets, Goto, Serve, TouchTicket
  <1>t. PICK l \in {"notify", "answered"} :
          /\ pc' = [pc EXCEPT ![p] = l]
          /\ l = "notify" => IsAgent(p) /\ owner[about[p]] # caller[p]
    OBVIOUS
  <1>1. TypeOK'
    OBVIOUS
  <1>2. \A q \in Procs : Standing(q)'
    BY DEF Standing
  <1>3. \A q, t \in Procs : Posted(q, t)'
    BY DEF Posted
  <1>4. \A q \in Procs : Entitled(q)'
    BY DEF Entitled, IsAgent
  <1>5. (\A c \in closings : Closing(c))' /\ (\A q \in Procs : known[q] \subseteq closings)'
    BY DEF Closing
  <1>6. ThreadsAreWhole'
    BY DEF ThreadsAreWhole, IsAgent
  <1>7. \A q, t \in Procs : Heard(q, t)'
    BY DEF Heard, IsAgent
  <1>8. \A q \in Procs : Deserved(q)'
    BY DEF Standing, Deserved, IsAgent
  <1>9. NotifiedIsTrue'
    BY DEF NotifiedIsTrue, Received, IsAgent
  <1> QED
    BY <1>1, <1>2, <1>3, <1>4, <1>5, <1>6, <1>7, <1>8, <1>9

\* A request to change a status keeps IInv.
LEMMA UpdateTicketStatusStep ==
    ASSUME IInv, NEW p \in Procs, UpdateTicketStatus(p)
    PROVE  IInv'
  <1> USE DEF IInv, TypeOK, requestVars, ticketVars, noticeVars, At, Running,
             Ended, Tickets, Goto, Serve, UpdateTicketStatus
  <1>1. TypeOK'
    BY SupportAssumption
  <1>2. \A q \in Procs : Standing(q)'
    BY SupportAssumption DEF Standing
  <1>3. \A q, t \in Procs : Posted(q, t)'
    BY DEF Posted
  <1>4. \A q \in Procs : Entitled(q)'
    BY DEF Entitled, IsAgent
  <1>5. (\A c \in closings : Closing(c))' /\ (\A q \in Procs : known[q] \subseteq closings)'
    BY DEF Closing
  <1>6. ThreadsAreWhole'
    BY DEF ThreadsAreWhole, IsAgent
  <1>7. \A q, t \in Procs : Heard(q, t)'
    BY DEF Standing, Heard, IsAgent
  <1>8. \A q \in Procs : Deserved(q)'
    BY DEF Deserved, IsAgent
  <1>9. NotifiedIsTrue'
    BY DEF Standing, NotifiedIsTrue, Received, IsAgent
  <1> QED
    BY <1>1, <1>2, <1>3, <1>4, <1>5, <1>6, <1>7, <1>8, <1>9

\* Writing a status keeps IInv: a closing nobody knew of joins closings.
LEMMA WriteStatusStep ==
    ASSUME IInv, NEW p \in Procs, WriteStatus(p)
    PROVE  IInv'
  <1> USE DEF IInv, TypeOK, requestVars, ticketVars, noticeVars, At, Running,
             Ended, Tickets, Goto, Serve, WriteStatus
  <1>t. PICK l \in {"notify", "answered"} :
          /\ pc' = [pc EXCEPT ![p] = l]
          /\ closings' = closings \cup (IF l = "notify" THEN {p} ELSE {})
          /\ l = "answered" => wanted[p] \notin {"RESOLVED", "CLOSED"}
    BY DEF Closed
  <1>s. about[p] \in Tickets /\ status' = [status EXCEPT ![about[p]] = wanted[p]]
    BY DEF Standing
  <1>1. TypeOK'
    BY <1>t
  <1>2. \A q \in Procs : Standing(q)'
    BY DEF Standing
  <1>3. \A q, t \in Procs : Posted(q, t)'
    BY <1>t DEF Posted
  <1>4. \A q \in Procs : Entitled(q)'
    BY DEF Entitled, IsAgent
  <1>5. (\A c \in closings : Closing(c))' /\ (\A q \in Procs : known[q] \subseteq closings)'
    BY <1>s DEF Closing
  <1>6. ThreadsAreWhole'
    BY DEF ThreadsAreWhole, IsAgent
  <1>7. \A q, t \in Procs : Heard(q, t)'
    BY <1>t DEF Standing, Heard, IsAgent
  <1>8. \A q \in Procs : Deserved(q)'
    BY DEF Deserved, IsAgent
  <1>9. NotifiedIsTrue'
    BY DEF NotifiedIsTrue, Received, IsAgent
  <1> QED
    BY <1>1, <1>2, <1>3, <1>4, <1>5, <1>6, <1>7, <1>8, <1>9

\* A notification keeps IInv: what it tells is Deserved.
LEMMA DispatchNotificationStep ==
    ASSUME IInv, NEW p \in Procs, DispatchNotification(p)
    PROVE  IInv'
  <1> USE DEF IInv, TypeOK, requestVars, ticketVars, noticeVars, At, Running,
             Ended, Tickets, Goto, Serve, DispatchNotification
  <1>1. TypeOK'
    OBVIOUS
  <1>2. \A q \in Procs : Standing(q)'
    BY DEF Standing
  <1>3. \A q, t \in Procs : Posted(q, t)'
    BY DEF Posted
  <1>4. \A q \in Procs : Entitled(q)'
    BY DEF Entitled, IsAgent
  <1>5. (\A c \in closings : Closing(c))' /\ (\A q \in Procs : known[q] \subseteq closings)'
    BY DEF Closing
  <1>6. ThreadsAreWhole'
    BY DEF ThreadsAreWhole, IsAgent
  <1>7. \A q, t \in Procs : Heard(q, t)'
    BY DEF Heard, IsAgent
  <1>8. \A q \in Procs : Deserved(q)'
    BY DEF Deserved, IsAgent
  <1>9. NotifiedIsTrue'
    BY DEF Deserved, NotifiedIsTrue, Received, Recipient, IsAgent
  <1> QED
    BY <1>1, <1>2, <1>3, <1>4, <1>5, <1>6, <1>7, <1>8, <1>9

\* A notification that fails keeps IInv.
LEMMA DispatchFailsStep ==
    ASSUME IInv, NEW p \in Procs, DispatchFails(p)
    PROVE  IInv'
  <1> USE DEF IInv, TypeOK, requestVars, ticketVars, noticeVars, At, Running,
             Ended, Tickets, Goto, Serve, DispatchFails
  <1>1. TypeOK'
    OBVIOUS
  <1>2. \A q \in Procs : Standing(q)'
    BY DEF Standing
  <1>3. \A q, t \in Procs : Posted(q, t)'
    BY DEF Posted
  <1>4. \A q \in Procs : Entitled(q)'
    BY DEF Entitled, IsAgent
  <1>5. (\A c \in closings : Closing(c))' /\ (\A q \in Procs : known[q] \subseteq closings)'
    BY DEF Closing
  <1>6. ThreadsAreWhole'
    BY DEF ThreadsAreWhole, IsAgent
  <1>7. \A q, t \in Procs : Heard(q, t)'
    BY DEF Heard, IsAgent
  <1>8. \A q \in Procs : Deserved(q)'
    BY DEF Deserved, IsAgent
  <1>9. NotifiedIsTrue'
    BY DEF NotifiedIsTrue, Received, IsAgent
  <1> QED
    BY <1>1, <1>2, <1>3, <1>4, <1>5, <1>6, <1>7, <1>8, <1>9

\* Reading a notification keeps IInv: who marks it has received it.
LEMMA MarkAsReadStep ==
    ASSUME IInv, NEW p \in Procs, MarkAsRead(p)
    PROVE  IInv'
  <1> USE DEF IInv, TypeOK, requestVars, ticketVars, noticeVars, At, Running,
             Ended, Tickets
  <1>t. PICK u \in Users, v \in Users : \E n \in Received(v) :
          /\ Serve(p, u, n)
          /\ Goto(p, CASE u # v -> "refused"
                       [] u = v /\ inbox[v][n] = "read" -> "answered"
                       [] u = v /\ inbox[v][n] = "unread" -> "mark")
    BY DEF MarkAsRead
  <1>n. PICK n \in Received(v) :
          /\ Serve(p, u, n)
          /\ Goto(p, CASE u # v -> "refused"
                       [] u = v /\ inbox[v][n] = "read" -> "answered"
                       [] u = v /\ inbox[v][n] = "unread" -> "mark")
    BY <1>t
  <1>r. n \in Procs /\ inbox[v][n] \in {"read", "unread"}
    BY DEF Received
  <1>s. /\ caller' = [caller EXCEPT ![p] = u]
        /\ about' = [about EXCEPT ![p] = n]
        /\ At(p, "idle")
    BY <1>n DEF Serve
  <1>a. PICK l \in {"refused", "answered", "mark"} :
          pc' = [pc EXCEPT ![p] = l] /\ (l = "mark" => u = v)
    BY <1>n, <1>r DEF Goto
  <1>u. UNCHANGED <<wanted, owner, status, thread, closings, known, inbox, audience>>
    BY DEF MarkAsRead
  <1>1. TypeOK'
    BY <1>r, <1>s, <1>a, <1>u
  <1>2. \A q \in Procs : Standing(q)'
    BY <1>r, <1>s, <1>a, <1>u DEF Standing
  <1>3. \A q, t \in Procs : Posted(q, t)'
    BY <1>s, <1>a, <1>u DEF Posted
  <1>4. \A q \in Procs : Entitled(q)'
    BY <1>s, <1>a, <1>u DEF Entitled, IsAgent
  <1>5. (\A c \in closings : Closing(c))' /\ (\A q \in Procs : known[q] \subseteq closings)'
    BY <1>s, <1>a, <1>u DEF Closing
  <1>6. ThreadsAreWhole'
    BY <1>s, <1>u, ThreadsStay
  <1>7. \A q, t \in Procs : Heard(q, t)'
    <2> SUFFICES ASSUME NEW q \in Procs, NEW x \in Procs, Heard(q, x)
                 PROVE  Heard(q, x)'
      OBVIOUS
    <2>1. CASE q = p
      <3>1. p \notin ToSet(thread[x])
        BY <1>s DEF Posted
      <3> QED
        BY <2>1, <3>1, <1>s, <1>a, <1>u DEF Heard, IsAgent
    <2>2. CASE q # p
      <3>1. /\ pc'[q] = pc[q] /\ caller'[q] = caller[q] /\ about'[q] = about[q]
            /\ known'[q] = known[q]
        BY <2>2, <1>s, <1>a, <1>u
      <3>2. \A c \in closings : about'[c] = about[c]
        BY <1>s DEF Closing
      <3> QED
        BY <3>1, <3>2, <1>u DEF Heard, IsAgent
    <2> QED
      BY <2>1, <2>2
  <1>8. \A q \in Procs : Deserved(q)'
    BY <1>s, <1>a, <1>u DEF Deserved, IsAgent
  <1>9. NotifiedIsTrue'
    BY <1>s, <1>u DEF Standing, NotifiedIsTrue, Received, IsAgent
  <1> QED
    BY <1>1, <1>2, <1>3, <1>4, <1>5, <1>6, <1>7, <1>8, <1>9

\* Marking a notification as read keeps IInv: it was received before.
LEMMA WriteMarkStep ==
    ASSUME IInv, NEW p \in Procs, WriteMark(p)
    PROVE  IInv'
  <1> USE DEF IInv, TypeOK, requestVars, ticketVars, noticeVars, At, Running,
             Ended, Tickets, Goto, Serve, WriteMark
  <1>1. TypeOK'
    OBVIOUS
  <1>2. \A q \in Procs : Standing(q)'
    BY DEF Standing
  <1>3. \A q, t \in Procs : Posted(q, t)'
    BY DEF Posted
  <1>4. \A q \in Procs : Entitled(q)'
    BY DEF Entitled, IsAgent
  <1>5. (\A c \in closings : Closing(c))' /\ (\A q \in Procs : known[q] \subseteq closings)'
    BY DEF Closing
  <1>6. ThreadsAreWhole'
    BY DEF ThreadsAreWhole, IsAgent
  <1>7. \A q, t \in Procs : Heard(q, t)'
    BY DEF Heard, IsAgent
  <1>8. \A q \in Procs : Deserved(q)'
    BY DEF Deserved, IsAgent
  <1>9. NotifiedIsTrue'
    BY DEF Standing, NotifiedIsTrue, Received, IsAgent
  <1> QED
    BY <1>1, <1>2, <1>3, <1>4, <1>5, <1>6, <1>7, <1>8, <1>9

\* Marking all as read keeps IInv: what was not received is not marked.
LEMMA MarkAllAsReadStep ==
    ASSUME IInv, NEW p \in Procs, MarkAllAsRead(p)
    PROVE  IInv'
  <1> USE DEF IInv, TypeOK, requestVars, ticketVars, noticeVars, At, Running,
             Ended, Tickets, Goto, Serve, MarkAllAsRead
  <1>1. TypeOK'
    OBVIOUS
  <1>2. \A q \in Procs : Standing(q)'
    BY DEF Standing, Received
  <1>3. \A q, t \in Procs : Posted(q, t)'
    BY DEF Posted
  <1>4. \A q \in Procs : Entitled(q)'
    BY DEF Entitled, IsAgent
  <1>5. (\A c \in closings : Closing(c))' /\ (\A q \in Procs : known[q] \subseteq closings)'
    BY DEF Closing
  <1>6. ThreadsAreWhole'
    BY ThreadsStay
  <1>7. \A q, t \in Procs : Heard(q, t)'
    BY DEF Standing, Heard, IsAgent
  <1>8. \A q \in Procs : Deserved(q)'
    BY DEF Deserved, IsAgent
  <1>9. NotifiedIsTrue'
    BY DEF Standing, NotifiedIsTrue, Received, IsAgent
  <1> QED
    BY <1>1, <1>2, <1>3, <1>4, <1>5, <1>6, <1>7, <1>8, <1>9

\* Choosing the audience of a broadcast keeps IInv.
LEMMA BroadcastSystemMessageStep ==
    ASSUME IInv, NEW p \in Procs, BroadcastSystemMessage(p)
    PROVE  IInv'
  <1> USE DEF IInv, TypeOK, requestVars, ticketVars, noticeVars, At, Running,
             Ended, Tickets, Goto, Serve, BroadcastSystemMessage
  <1>1. TypeOK'
    BY SupportAssumption
  <1>2. \A q \in Procs : Standing(q)'
    BY SupportAssumption DEF Standing
  <1>3. \A q, t \in Procs : Posted(q, t)'
    BY DEF Posted
  <1>4. \A q \in Procs : Entitled(q)'
    BY DEF Entitled, IsAgent
  <1>5. (\A c \in closings : Closing(c))' /\ (\A q \in Procs : known[q] \subseteq closings)'
    BY DEF Closing
  <1>6. ThreadsAreWhole'
    BY ThreadsStay
  <1>7. \A q, t \in Procs : Heard(q, t)'
    BY DEF Standing, Heard, IsAgent
  <1>8. \A q \in Procs : Deserved(q)'
    BY DEF Deserved, IsAgent
  <1>9. NotifiedIsTrue'
    BY DEF Standing, NotifiedIsTrue, Received, IsAgent
  <1> QED
    BY <1>1, <1>2, <1>3, <1>4, <1>5, <1>6, <1>7, <1>8, <1>9

\* Inserting a broadcast keeps IInv: its rows are of its audience.
LEMMA InsertBroadcastStep ==
    ASSUME IInv, NEW p \in Procs, InsertBroadcast(p)
    PROVE  IInv'
  <1> USE DEF IInv, TypeOK, requestVars, ticketVars, noticeVars, At, Running,
             Ended, Tickets, Goto, Serve, InsertBroadcast
  <1>1. TypeOK'
    OBVIOUS
  <1>2. \A q \in Procs : Standing(q)'
    BY DEF Standing
  <1>3. \A q, t \in Procs : Posted(q, t)'
    BY DEF Posted
  <1>4. \A q \in Procs : Entitled(q)'
    BY DEF Entitled, IsAgent
  <1>5. (\A c \in closings : Closing(c))' /\ (\A q \in Procs : known[q] \subseteq closings)'
    BY DEF Closing
  <1>6. ThreadsAreWhole'
    BY DEF ThreadsAreWhole, IsAgent
  <1>7. \A q, t \in Procs : Heard(q, t)'
    BY DEF Heard, IsAgent
  <1>8. \A q \in Procs : Deserved(q)'
    BY DEF Deserved, IsAgent
  <1>9. NotifiedIsTrue'
    BY DEF NotifiedIsTrue, Received, IsAgent
  <1> QED
    BY <1>1, <1>2, <1>3, <1>4, <1>5, <1>6, <1>7, <1>8, <1>9

\* A statement that fails keeps IInv: what was written before stays.
LEMMA FailStep ==
    ASSUME IInv, NEW p \in Procs, Fail(p)
    PROVE  IInv'
  <1> USE DEF IInv, TypeOK, requestVars, ticketVars, noticeVars, At, Running,
             Ended, Tickets, Goto, Serve, Fail
  <1>1. TypeOK'
    OBVIOUS
  <1>2. \A q \in Procs : Standing(q)'
    BY DEF Standing
  <1>3. \A q, t \in Procs : Posted(q, t)'
    BY DEF Posted
  <1>4. \A q \in Procs : Entitled(q)'
    BY DEF Entitled, IsAgent
  <1>5. (\A c \in closings : Closing(c))' /\ (\A q \in Procs : known[q] \subseteq closings)'
    BY DEF Closing
  <1>6. ThreadsAreWhole'
    BY DEF ThreadsAreWhole, IsAgent
  <1>7. \A q, t \in Procs : Heard(q, t)'
    BY DEF Heard, IsAgent
  <1>8. \A q \in Procs : Deserved(q)'
    BY DEF Deserved, IsAgent
  <1>9. NotifiedIsTrue'
    BY DEF NotifiedIsTrue, Received, IsAgent
  <1> QED
    BY <1>1, <1>2, <1>3, <1>4, <1>5, <1>6, <1>7, <1>8, <1>9

\* A restart keeps IInv: it only ends handlers.
LEMMA CrashStep ==
    ASSUME IInv, Crash
    PROVE  IInv'
  <1> USE DEF IInv, TypeOK, Crash, requestVars, ticketVars, noticeVars, At, Running,
             Ended, Tickets
  <1>1. TypeOK'
    OBVIOUS
  <1>2. \A q \in Procs : Standing(q)'
    BY DEF Standing
  <1>3. \A q, t \in Procs : Posted(q, t)'
    BY DEF Posted
  <1>4. \A q \in Procs : Entitled(q)'
    BY DEF Entitled
  <1>5. (\A c \in closings : Closing(c))' /\ (\A q \in Procs : known[q] \subseteq closings)'
    BY DEF Closing
  <1>6. ThreadsAreWhole'
    BY DEF ThreadsAreWhole, IsAgent
  <1>7. \A q, t \in Procs : Heard(q, t)'
    BY DEF Heard, IsAgent
  <1>8. \A q \in Procs : Deserved(q)'
    BY DEF Deserved
  <1>9. NotifiedIsTrue'
    BY DEF NotifiedIsTrue, Received, IsAgent
  <1> QED
    BY <1>1, <1>2, <1>3, <1>4, <1>5, <1>6, <1>7, <1>8, <1>9

-------------------------------------------------------------------------------
\* IInv is inductive: every step of a handler, a fault and a restart keeps it.
THEOREM SupportInvariant == Spec => []IInv
  <1>1. Init => IInv
    BY SupportInit
  <1>2. IInv /\ [Next]_vars => IInv'
    <2> SUFFICES ASSUME IInv, [Next]_vars PROVE IInv'
      OBVIOUS
    <2>1. ASSUME NEW p \in Procs,
                 \/ CreateTicket(p) \/ InsertTicket(p)
                 \/ AddMessage(p) \/ Reopen(p) \/ PostMessage(p) \/ TouchTicket(p)
                 \/ UpdateTicketStatus(p) \/ WriteStatus(p)
          PROVE  IInv'
      BY <2>1, CreateTicketStep, InsertTicketStep, AddMessageStep, ReopenStep, PostMessageStep,
         TouchTicketStep, UpdateTicketStatusStep, WriteStatusStep
    <2>2. ASSUME NEW p \in Procs,
                 \/ DispatchNotification(p) \/ DispatchFails(p)
                 \/ MarkAsRead(p) \/ WriteMark(p) \/ MarkAllAsRead(p)
                 \/ BroadcastSystemMessage(p) \/ InsertBroadcast(p)
                 \/ Fail(p)
          PROVE  IInv'
      BY <2>2, DispatchNotificationStep, DispatchFailsStep, MarkAsReadStep, WriteMarkStep,
         MarkAllAsReadStep, BroadcastSystemMessageStep, InsertBroadcastStep, FailStep
    <2>3. CASE Crash
      BY <2>3, CrashStep
    <2>4. CASE UNCHANGED vars
      BY <2>4 DEF vars, requestVars, ticketVars, noticeVars, IInv, TypeOK, Standing, Posted,
        Entitled, Closing, ThreadsAreWhole, Heard, Deserved, NotifiedIsTrue, Tickets, Received,
        IsAgent, At
    <2> QED
      BY <2>1, <2>2, <2>3, <2>4 DEF Next, Terminated
  <1> QED
    BY <1>1, <1>2, PTL DEF Spec

\* Whatever is stored has its type, for every number of users and handlers.
THEOREM SupportTypeCorrect == Spec => []TypeOK
  BY SupportInvariant, PTL DEF IInv

\* No ticket is ever without its opening message, or has a message twice or of
\* a user who may not write there: createTicket's transaction and addMessage.
THEOREM ThreadsWhole == Spec => []ThreadsAreWhole
  BY SupportInvariant, PTL DEF IInv

\* A reply in a closed ticket was read before the closing, however the reads
\* and writes of addMessage and updateTicketStatus interleave.
THEOREM RepliesAreHeard == Spec => []NoReplyIsBuried
  <1>1. IInv => NoReplyIsBuried
    <2> SUFFICES ASSUME IInv, NEW t \in Tickets, NEW p \in ToSet(thread[t]) \ {t},
                        ~ IsAgent(p), status[t] \in {"RESOLVED", "CLOSED"}
                 PROVE  \E c \in closings \ known[p] : about[c] = t
      BY DEF NoReplyIsBuried
    <2>1. t \in Procs /\ p \in Procs
      BY ElementsOf DEF IInv, TypeOK, Tickets
    <2>2. about[p] = t
      BY <2>1 DEF IInv, Posted
    <2> QED
      BY <2>1, <2>2 DEF IInv, Heard
  <1> QED
    BY <1>1, SupportInvariant, PTL

\* dispatchNotification and broadcastSystemMessage tell nobody what has not
\* happened, whatever failed before they ran.
THEOREM NotificationsAreTrue == Spec => []NotifiedIsTrue
  BY SupportInvariant, PTL DEF IInv
===============================================================================
