--------------------------- MODULE Alerts_proofs ---------------------------
(* Theorems about Alerts, for any users, devices, runs, tickets, sockets,   *)
(* and whatever the detectors find; and, last, about Scheduler, whose ticks *)
(* start the runs of the guardian.                                          *)
EXTENDS Alerts, Scheduler, Sums, TLAPS

-----------------------------------------------------------------------------
(* Tickets.                                                                 *)

(* A ticket that is still to be used has let nobody in.                     *)
TicketInv ==
    /\ admitted \in [Tickets -> Nat]
    /\ ticket \in [Tickets -> [state : {"none", "live", "gone"}, user : Users \union {Nobody}]]
    /\ \A t \in Tickets : admitted[t] <= (IF ticket[t].state = "gone" THEN 1 ELSE 0)

(* A ticket changes, and lets nobody in.                                    *)
LEMMA TicketChanges ==
  ASSUME TicketInv, NEW t \in Tickets, NEW s \in {"live", "gone"},
         NEW u \in Users \union {Nobody}, ticket[t].state # "gone",
         ticket' = [ticket EXCEPT ![t] = [state |-> s, user |-> u]],
         admitted' = admitted
  PROVE  TicketInv'
  BY DEF TicketInv

(* A socket that is let in uses the ticket up.                              *)
LEMMA TicketAdmits ==
  ASSUME TicketInv, NEW t \in Tickets, NEW s \in Sockets, Admit(s, t)
  PROVE  TicketInv'
  <1>1. /\ ticket[t].state = "live"
        /\ ticket' = [ticket EXCEPT ![t] = [state |-> "gone", user |-> Nobody]]
        /\ admitted' = [admitted EXCEPT ![t] = @ + 1]
    BY DEF Admit, Consume
  <1>2. admitted[t] = 0
    BY <1>1 DEF TicketInv
  <1> QED
    BY <1>1, <1>2 DEF TicketInv

(* Every step keeps it.                                                     *)
LEMMA TicketStep == TicketInv /\ [Next]_vars => TicketInv'
  <1> SUFFICES ASSUME TicketInv, [Next]_vars PROVE TicketInv'
    OBVIOUS
  <1>1. CASE UNCHANGED <<ticket, admitted>>
    BY <1>1 DEF TicketInv
  <1>2. ASSUME NEW t \in Tickets, NEW u \in Users, Mint(t, u) PROVE TicketInv'
    BY <1>2, TicketChanges DEF Mint
  <1>3. ASSUME NEW t \in Tickets, Expire(t) PROVE TicketInv'
    BY <1>3, TicketChanges DEF Expire
  <1>4. ASSUME NEW r \in Runs, RunStep(r) \/ Fail(r) PROVE UNCHANGED <<ticket, admitted>>
    BY <1>4 DEF RunStep, Start, Volatility, DetectEarnings, Macro, Persist, Dispatch, Lookup,
                Post, Commit, Fail, Same, socketVars
  <1>5. (\E s \in Sockets : Subscribe(s) \/ Disconnect(s)) \/ UNCHANGED vars
        \/ (\E d \in Devices, u \in Users : Register(d, u)) => UNCHANGED <<ticket, admitted>>
    BY DEF Subscribe, Disconnect, Register, socketVars, vars
  <1> QED
    BY <1>1, <1>2, <1>3, <1>4, <1>5, TicketAdmits DEF Next

(* GETDEL: however many sockets present a ticket, one is let in.            *)
THEOREM TicketsOpenOneSocket == Spec => []OneSocketPerTicket
  <1>1. Init => TicketInv
    BY DEF Init, TicketInv
  <1>2. TicketInv => OneSocketPerTicket
    BY DEF TicketInv, OneSocketPerTicket
  <1> QED
    BY <1>1, <1>2, TicketStep, PTL DEF Spec

-----------------------------------------------------------------------------
(* Pushes.                                                                  *)

RunFields == {"pc", "at", "events", "changes", "rows", "tokens", "held"}

IsRecord(x) == DOMAIN x = RunFields /\ x = [f \in RunFields |-> x[f]]

IsRow(n) == n = [alert |-> n.alert, sent |-> n.sent] /\ n.sent \in BOOLEAN

AreRows(rows) == rows = [i \in DOMAIN rows |-> rows[i]] /\ \A i \in DOMAIN rows : IsRow(rows[i])

(* What a run has in hand: it looks tokens up among the registrations it    *)
(* has seen, it posts to tokens that it saw with this user.                 *)
SeenDevices(x) ==
    /\ x.pc = "lookup" => \A d \in Devices : <<d, device[d]>> \in x.held
    /\ x.pc = "post" => /\ x.tokens # {} /\ x.tokens \subseteq Devices
                        /\ \A d \in x.tokens : <<d, x.rows[x.at].alert.user>> \in x.held

AcceptedFor(r, i, n) ==
    n.sent => \E p \in pushed : p.id = <<r, i>> /\ p.user = n.alert.user

RowsAccepted(r, rows) == \A i \in DOMAIN rows : AcceptedFor(r, i, rows[i])

PushInv ==
    /\ run = [r \in Runs |-> run[r]] /\ device = [d \in Devices |-> device[d]]
    /\ \A r \in Runs : /\ IsRecord(run[r]) /\ AreRows(run[r].rows)
                       /\ SeenDevices(run[r]) /\ RowsAccepted(r, run[r].rows)
    /\ SentMeansAccepted

(* What Expo has accepted stays accepted.                                   *)
LEMMA AcceptedStays ==
  ASSUME NEW r, NEW rows, RowsAccepted(r, rows), pushed \subseteq pushed'
  PROVE  RowsAccepted(r, rows)'
  <1> SUFFICES ASSUME NEW i \in DOMAIN rows, rows[i].sent
               PROVE  \E p \in pushed' : p.id = <<r, i>> /\ p.user = rows[i].alert.user
    BY DEF RowsAccepted, AcceptedFor
  <1> QED
    BY DEF RowsAccepted, AcceptedFor

(* So does what a stored row says of it.                                    *)
LEMMA SentStays ==
  ASSUME SentMeansAccepted, table' = table, pushed \subseteq pushed'
  PROVE  SentMeansAccepted'
  BY DEF SentMeansAccepted

(* One run becomes x, and Expo may have accepted more.                      *)
LEMMA PushInvRun ==
  ASSUME PushInv, NEW r \in Runs, NEW x, IsRecord(x), AreRows(x.rows),
         run' = [run EXCEPT ![r] = x], device' = device, SentMeansAccepted',
         pushed \subseteq pushed', SeenDevices(x), RowsAccepted(r, x.rows)'
  PROVE  PushInv'
  <1>1. \A o \in Runs : run'[o] = IF o = r THEN x ELSE run[o]
    BY DEF PushInv
  <1>2. run' = [o \in Runs |-> run'[o]] /\ device' = [d \in Devices |-> device'[d]]
    BY <1>1 DEF PushInv
  <1>4. ASSUME NEW o \in Runs
        PROVE  /\ IsRecord(run'[o]) /\ AreRows(run'[o].rows)
               /\ SeenDevices(run[o])' /\ RowsAccepted(o, run[o].rows)'
    <2>1. CASE o = r
      <3>1. run'[o] = x
        BY <1>1, <2>1
      <3>2. RowsAccepted(o, run[o].rows)'
        BY <2>1, <3>1 DEF RowsAccepted, AcceptedFor
      <3>3. SeenDevices(run[o])'
        BY <3>1 DEF SeenDevices
      <3> QED
        BY <3>1, <3>2, <3>3
    <2>2. CASE o # r
      <3>1. run'[o] = run[o]
        BY <1>1, <2>2
      <3>2. RowsAccepted(o, run[o].rows)'
        BY <3>1, AcceptedStays DEF PushInv
      <3>3. SeenDevices(run[o])'
        BY <3>1 DEF PushInv, SeenDevices
      <3> QED
        BY <3>1, <3>2, <3>3 DEF PushInv
    <2> QED
      BY <2>1, <2>2
  <1> QED
    BY <1>2, <1>4 DEF PushInv

(* It keeps its rows and neither looks up nor posts.                        *)
LEMMA PushInvSameRows ==
  ASSUME PushInv, NEW r \in Runs, NEW x, IsRecord(x), x.rows = run[r].rows,
         x.pc \notin {"lookup", "post"}, run' = [run EXCEPT ![r] = x],
         UNCHANGED <<device, table, pushed>>
  PROVE  PushInv'
  <1>1. RowsAccepted(r, x.rows)' /\ AreRows(x.rows)
    BY AcceptedStays DEF PushInv
  <1>2. SeenDevices(x)
    BY DEF SeenDevices
  <1>3. SentMeansAccepted'
    BY SentStays DEF PushInv
  <1> QED
    BY <1>1, <1>2, <1>3, PushInvRun

(* The detectors touch no row.                                              *)
LEMMA PushInvDetect ==
  ASSUME PushInv, NEW r \in Runs,
         Start(r) \/ Volatility(r) \/ DetectEarnings(r) \/ Macro(r)
  PROVE  PushInv'
  <1>1. IsRecord(run[r]) /\ UNCHANGED <<device, table, pushed>>
    BY DEF PushInv, Start, Volatility, DetectEarnings, Macro, Same
  <1>2. CASE Start(r)
    <2> DEFINE x == [run[r] EXCEPT !.pc = "volatility"]
    <2>1. run' = [run EXCEPT ![r] = x]
      BY <1>2 DEF Start, Goto
    <2>2. IsRecord(x) /\ x.rows = run[r].rows /\ x.pc = "volatility"
      BY <1>1 DEF IsRecord, RunFields
    <2> HIDE DEF x
    <2> QED
      BY <1>1, <2>1, <2>2, PushInvSameRows
  <1>3. CASE Volatility(r)
    <2>1. PICK e : run' = [run EXCEPT ![r] = [run[r] EXCEPT !.at = @ + 1, !.events = e]]
      BY <1>3 DEF Volatility, Goto
    <2> DEFINE x == [run[r] EXCEPT !.at = @ + 1, !.events = e]
    <2>2. IsRecord(x) /\ x.rows = run[r].rows /\ x.pc = run[r].pc
      BY <1>1 DEF IsRecord, RunFields
    <2>3. run[r].pc = "volatility" /\ run' = [run EXCEPT ![r] = x]
      BY <1>3, <2>1 DEF Volatility, At
    <2> HIDE DEF x
    <2> QED
      BY <1>1, <2>2, <2>3, PushInvSameRows
  <1>4. CASE DetectEarnings(r)
    <2>1. PICK e : run' = [run EXCEPT ![r] = [run[r] EXCEPT !.pc = "macro", !.at = 1,
                                                           !.events = e]]
      BY <1>4 DEF DetectEarnings, Goto
    <2> DEFINE x == [run[r] EXCEPT !.pc = "macro", !.at = 1, !.events = e]
    <2>2. IsRecord(x) /\ x.rows = run[r].rows /\ x.pc = "macro"
      BY <1>1 DEF IsRecord, RunFields
    <2> HIDE DEF x
    <2> QED
      BY <1>1, <2>1, <2>2, PushInvSameRows DEF x
  <1>5. CASE Macro(r)
    <2>1. PICK c : run' = [run EXCEPT ![r] = [run[r] EXCEPT !.at = @ + 1, !.changes = c]]
      <3>1. CASE Goto(r, [run[r] EXCEPT !.at = @ + 1])
        <4>1. [run[r] EXCEPT !.at = @ + 1] =
              [run[r] EXCEPT !.at = @ + 1, !.changes = run[r].changes]
          BY <1>1 DEF IsRecord, RunFields
        <4> QED
          BY <3>1, <4>1 DEF Goto
      <3> QED
        BY <1>5, <3>1 DEF Macro, Goto
    <2> DEFINE x == [run[r] EXCEPT !.at = @ + 1, !.changes = c]
    <2>2. IsRecord(x) /\ x.rows = run[r].rows /\ x.pc = run[r].pc
      BY <1>1 DEF IsRecord, RunFields
    <2>3. run[r].pc = "macro" /\ run' = [run EXCEPT ![r] = x]
      BY <1>5, <2>1 DEF Macro, At
    <2> HIDE DEF x
    <2> QED
      BY <1>1, <2>2, <2>3, PushInvSameRows
  <1> QED
    BY <1>2, <1>3, <1>4, <1>5

(* What is inserted has not been sent.                                      *)
LEMMA PushInvPersist ==
  ASSUME PushInv, NEW r \in Runs, Persist(r)
  PROVE  PushInv'
  <1>1. IsRecord(run[r]) /\ UNCHANGED <<device, table, pushed>>
    BY DEF PushInv, Persist, Same
  <1>2. PICK all : run' = [run EXCEPT ![r] = [run[r] EXCEPT !.pc = "dispatch", !.at = 1,
                                                 !.events = all, !.rows = Pending(all)]]
    BY DEF Persist, Goto
  <1> DEFINE x == [run[r] EXCEPT !.pc = "dispatch", !.at = 1,
                                 !.events = all, !.rows = Pending(all)]
  <1>3. IsRecord(x) /\ x.rows = Pending(all) /\ x.pc = "dispatch"
    BY <1>1 DEF IsRecord, RunFields
  <1>4. AreRows(Pending(all)) /\ \A i \in DOMAIN Pending(all) : ~Pending(all)[i].sent
    BY DEF AreRows, IsRow, Pending
  <1>5. RowsAccepted(r, Pending(all))' /\ SentMeansAccepted'
    BY <1>1, <1>4, SentStays DEF PushInv, RowsAccepted, AcceptedFor
  <1>6. run' = [run EXCEPT ![r] = x]
    BY <1>2
  <1> HIDE DEF x
  <1> QED
    BY <1>1, <1>3, <1>4, <1>5, <1>6, PushInvRun DEF SeenDevices

(* A dispatch begins to remember who has which device.                      *)
LEMMA PushInvDispatch ==
  ASSUME PushInv, NEW r \in Runs, Dispatch(r)
  PROVE  PushInv'
  <1>1. IsRecord(run[r]) /\ UNCHANGED <<device, table, pushed>>
    BY DEF PushInv, Dispatch, Same
  <1>0. PICK x : x = [run[r] EXCEPT !.pc = "lookup", !.held = Registered]
    OBVIOUS
  <1>2. run' = [run EXCEPT ![r] = x]
    BY <1>0 DEF Dispatch, Goto
  <1>3. IsRecord(x) /\ x.rows = run[r].rows /\ x.pc = "lookup" /\ x.held = Registered
    BY <1>0, <1>1 DEF IsRecord, RunFields
  <1>4. SeenDevices(x)
    BY <1>3 DEF SeenDevices, Registered
  <1>5. AreRows(x.rows) /\ RowsAccepted(r, x.rows)' /\ SentMeansAccepted'
    BY <1>1, <1>3, SentStays, AcceptedStays DEF PushInv
  <1> QED
    BY <1>1, <1>2, <1>3, <1>4, <1>5, PushInvRun

(* The tokens of a user are devices that were seen with him.                *)
LEMMA PushInvLookup ==
  ASSUME PushInv, NEW r \in Runs, Lookup(r)
  PROVE  PushInv'
  <1> DEFINE tokens == TokensOf(run[r].rows[run[r].at].alert.user)
  <1>1. /\ IsRecord(run[r]) /\ UNCHANGED <<device, table, pushed>> /\ run[r].pc = "lookup"
        /\ SeenDevices(run[r])
    BY DEF PushInv, Lookup, Same, At
  <1>2. CASE tokens = {}
    <2> DEFINE x == [run[r] EXCEPT !.pc = "dispatch", !.at = @ + 1]
    <2>1. run' = [run EXCEPT ![r] = x]
      BY <1>2 DEF Lookup, Goto
    <2>2. IsRecord(x) /\ x.rows = run[r].rows /\ x.pc = "dispatch"
      BY <1>1 DEF IsRecord, RunFields
    <2> HIDE DEF x
    <2> QED
      BY <1>1, <2>1, <2>2, PushInvSameRows
  <1>3. CASE tokens # {}
    <2>0. PICK x : x = [run[r] EXCEPT !.pc = "post", !.tokens = tokens]
      OBVIOUS
    <2>1. run' = [run EXCEPT ![r] = x]
      BY <1>3, <2>0 DEF Lookup, Goto
    <2>2. /\ IsRecord(x) /\ x.rows = run[r].rows /\ x.pc = "post" /\ x.tokens = tokens
          /\ x.held = run[r].held /\ x.at = run[r].at
      BY <1>1, <2>0 DEF IsRecord, RunFields
    <2>3. tokens \subseteq Devices
          /\ \A d \in tokens : device[d] = run[r].rows[run[r].at].alert.user
      BY DEF TokensOf
    <2>4. SeenDevices(x)
      BY <1>1, <1>3, <2>2, <2>3 DEF SeenDevices
    <2>5. AreRows(x.rows) /\ RowsAccepted(r, x.rows)' /\ SentMeansAccepted'
      BY <1>1, <2>2, SentStays, AcceptedStays DEF PushInv
    <2> QED
      BY <1>1, <2>1, <2>2, <2>4, <2>5, PushInvRun
  <1> QED
    BY <1>2, <1>3

(* One answer of Expo: a row that was not sent and now is was accepted.     *)
LEMMA PushInvAnswered ==
  ASSUME PushInv, NEW r \in Runs, NEW ok \in BOOLEAN, Answered(r, ok),
         run[r].pc = "post", UNCHANGED <<device, table>>, pushed \subseteq pushed',
         ok => Sending(r) \subseteq pushed'
  PROVE  PushInv'
  <1> DEFINE at == run[r].at
             old == run[r].rows
  <1>1. IsRecord(run[r]) /\ AreRows(old) /\ SeenDevices(run[r])
    BY DEF PushInv
  <1>2. PICK rows : rows = [old EXCEPT ![at].sent = @ \/ ok]
    OBVIOUS
  <1>3. PICK x : x = [run[r] EXCEPT !.pc = "dispatch", !.at = @ + 1,
                                    !.rows[run[r].at].sent = @ \/ ok]
    OBVIOUS
  <1>4. run' = [run EXCEPT ![r] = x]
    BY <1>3 DEF Answered, Goto
  <1>5. IsRecord(x) /\ x.rows = rows /\ x.pc = "dispatch"
    BY <1>1, <1>2, <1>3 DEF IsRecord, RunFields
  <1>6. /\ DOMAIN rows = DOMAIN old /\ rows = [i \in DOMAIN old |-> rows[i]]
        /\ \A i \in DOMAIN old : i # at => rows[i] = old[i]
        /\ at \in DOMAIN old => rows[at] = [old[at] EXCEPT !.sent = @ \/ ok]
    BY <1>1, <1>2 DEF AreRows
  <1>7. at \in DOMAIN old =>
            /\ IsRow(rows[at]) /\ rows[at].alert = old[at].alert
            /\ rows[at].sent = (old[at].sent \/ ok)
    <2> SUFFICES ASSUME at \in DOMAIN old
                 PROVE  /\ IsRow(rows[at]) /\ rows[at].alert = old[at].alert
                        /\ rows[at].sent = (old[at].sent \/ ok)
      OBVIOUS
    <2>1. IsRow(old[at])
      BY <1>1 DEF AreRows
    <2>2. PICK yes \in BOOLEAN : yes = (old[at].sent \/ ok)
      BY <2>1 DEF IsRow
    <2>3. rows[at] = [old[at] EXCEPT !.sent = yes]
      BY <1>6, <2>2
    <2>4. rows[at] = [alert |-> old[at].alert, sent |-> yes]
      BY <2>1, <2>3 DEF IsRow
    <2> QED
      BY <2>2, <2>4 DEF IsRow
  <1>8. AreRows(rows)
    BY <1>1, <1>6, <1>7 DEF AreRows
  <1>9. RowsAccepted(r, rows)'
    <2> SUFFICES ASSUME NEW i \in DOMAIN rows, rows[i].sent
                 PROVE  \E p \in pushed' : p.id = <<r, i>> /\ p.user = rows[i].alert.user
      BY DEF RowsAccepted, AcceptedFor
    <2>1. old[i].sent => \E p \in pushed : p.id = <<r, i>> /\ p.user = old[i].alert.user
      BY <1>6 DEF PushInv, RowsAccepted, AcceptedFor
    <2>2. CASE i # at \/ old[i].sent
      <3>1. old[i].sent /\ rows[i].alert = old[i].alert
        BY <1>6, <1>7, <2>2
      <3> QED
        BY <2>1, <3>1
    <2>3. CASE i = at /\ ~old[i].sent
      <3>1. ok /\ rows[at].alert = old[at].alert
        BY <1>6, <1>7, <2>3
      <3>2. PICK d \in run[r].tokens : TRUE
        BY <1>1 DEF SeenDevices
      <3>3. [id |-> <<r, at>>, user |-> old[at].alert.user, to |-> d] \in Sending(r)
        BY <3>2 DEF Sending
      <3>4. [id |-> <<r, at>>, user |-> old[at].alert.user, to |-> d] \in pushed'
        BY <3>1, <3>3
      <3> QED
        BY <2>3, <3>1, <3>4
    <2> QED
      BY <2>2, <2>3
  <1>10. SentMeansAccepted'
    BY SentStays DEF PushInv
  <1>11. SeenDevices(x)
    BY <1>5 DEF SeenDevices
  <1> QED
    BY <1>4, <1>5, <1>8, <1>9, <1>10, <1>11, PushInvRun

(* What is committed as sent was accepted.                                  *)
LEMMA PushInvCommit ==
  ASSUME PushInv, NEW r \in Runs, Commit(r)
  PROVE  PushInv'
  <1>0. PICK x : x = [run[r] EXCEPT !.pc = "done"]
    OBVIOUS
  <1>1. /\ run' = [run EXCEPT ![r] = x] /\ UNCHANGED <<device, pushed>>
        /\ table' = table \union Stored(r)
    BY <1>0 DEF Commit, Goto
  <1>2. IsRecord(x) /\ x.rows = run[r].rows /\ x.pc = "done"
    BY <1>0 DEF PushInv, IsRecord, RunFields
  <1>3. \A n \in Stored(r) : n.sent =>
            \E p \in pushed : p.id = n.id /\ p.user = n.alert.user
    <2> SUFFICES ASSUME NEW i \in DOMAIN run[r].rows, run[r].rows[i].sent
                 PROVE  \E p \in pushed : p.id = <<r, i>> /\ p.user = run[r].rows[i].alert.user
      BY DEF Stored
    <2> QED
      BY DEF PushInv, RowsAccepted, AcceptedFor
  <1>4. SentMeansAccepted'
    BY <1>1, <1>3 DEF PushInv, SentMeansAccepted
  <1>5. AreRows(x.rows) /\ RowsAccepted(r, x.rows)'
    BY <1>1, <1>2, AcceptedStays DEF PushInv
  <1>6. SeenDevices(x)
    BY <1>2 DEF SeenDevices
  <1> QED
    BY <1>1, <1>2, <1>4, <1>5, <1>6, PushInvRun

(* A run that failed has nothing in hand.                                   *)
LEMMA FreshIs ==
  ASSUME NEW p
  PROVE  LET x == [Fresh EXCEPT !.pc = p]
         IN  IsRecord(x) /\ x.pc = p /\ AreRows(x.rows) /\ DOMAIN x.rows = {}
  <1> DEFINE x == [Fresh EXCEPT !.pc = p]
  <1>1. IsRecord(x) /\ x.pc = p /\ x.rows = <<>>
    BY DEF Fresh, IsRecord, RunFields
  <1>2. AreRows(<<>>) /\ DOMAIN <<>> = {}
    BY DEF AreRows
  <1> QED
    BY <1>1, <1>2

(* What failed is rolled back.                                              *)
LEMMA PushInvFail ==
  ASSUME PushInv, NEW r \in Runs, Fail(r)
  PROVE  PushInv'
  <1>1. PICK x : x = [Fresh EXCEPT !.pc = "failed"]
    OBVIOUS
  <1>2. run' = [run EXCEPT ![r] = x] /\ UNCHANGED <<device, table, pushed>>
    BY <1>1 DEF Fail, Goto, Same
  <1>3. IsRecord(x) /\ x.pc = "failed" /\ AreRows(x.rows) /\ DOMAIN x.rows = {}
    BY <1>1, FreshIs
  <1>4. RowsAccepted(r, x.rows)' /\ SeenDevices(x)
    BY <1>3 DEF RowsAccepted, SeenDevices
  <1>5. SentMeansAccepted'
    BY <1>2, SentStays DEF PushInv
  <1> QED
    BY <1>2, <1>3, <1>4, <1>5, PushInvRun

(* A device that changes hands is seen by every run.                        *)
LEMMA PushInvRegister ==
  ASSUME PushInv, NEW d \in Devices, NEW u \in Users, Register(d, u)
  PROVE  PushInv'
  <1>1. /\ device' = [device EXCEPT ![d] = u] /\ UNCHANGED <<table, pushed>>
        /\ run' = [r \in Runs |-> [run[r] EXCEPT !.held = @ \union {<<d, u>>}]]
    BY DEF Register
  <1>2. ASSUME NEW r \in Runs
        PROVE  /\ IsRecord(run'[r]) /\ run'[r].pc = run[r].pc /\ run'[r].at = run[r].at
               /\ run'[r].rows = run[r].rows /\ run'[r].tokens = run[r].tokens
               /\ run'[r].held = run[r].held \union {<<d, u>>}
    BY <1>1 DEF PushInv, IsRecord, RunFields
  <1>3. \A e \in Devices : device'[e] = IF e = d THEN u ELSE device[e]
    BY <1>1 DEF PushInv
  <1>4. ASSUME NEW r \in Runs PROVE SeenDevices(run[r])'
    BY <1>2, <1>3 DEF PushInv, SeenDevices
  <1>5. ASSUME NEW r \in Runs PROVE AreRows(run'[r].rows) /\ RowsAccepted(r, run[r].rows)'
    <2>1. PICK rows : rows = run[r].rows
      OBVIOUS
    <2>2. RowsAccepted(r, rows)' /\ AreRows(rows) /\ run'[r].rows = rows
      BY <1>1, <1>2, <2>1, AcceptedStays DEF PushInv
    <2> QED
      BY <2>2 DEF RowsAccepted, AcceptedFor
  <1>6. SentMeansAccepted'
    BY <1>1, SentStays DEF PushInv
  <1>7. run' = [r \in Runs |-> run'[r]] /\ device' = [e \in Devices |-> device'[e]]
    BY <1>1 DEF PushInv
  <1> QED
    BY <1>2, <1>4, <1>5, <1>6, <1>7 DEF PushInv

(* At the start nothing was sent.                                           *)
LEMMA PushInvInit == Init => PushInv
  <1> SUFFICES ASSUME Init PROVE PushInv
    OBVIOUS
  <1>1. IsRecord(Fresh) /\ Fresh.pc = "idle" /\ Fresh.rows = <<>>
    BY DEF Fresh, IsRecord, RunFields
  <1>2. AreRows(<<>>) /\ DOMAIN <<>> = {}
    BY DEF AreRows
  <1>3. \A r \in Runs : /\ IsRecord(run[r]) /\ AreRows(run[r].rows)
                        /\ SeenDevices(run[r]) /\ RowsAccepted(r, run[r].rows)
    BY <1>1, <1>2 DEF Init, SeenDevices, RowsAccepted
  <1> QED
    BY <1>3 DEF Init, PushInv, SentMeansAccepted

(* Every step keeps it.                                                     *)
LEMMA PushInvStep == PushInv /\ [Next]_vars => PushInv'
  <1> SUFFICES ASSUME PushInv, [Next]_vars PROVE PushInv'
    OBVIOUS
  <1>1. ASSUME NEW r \in Runs, Post(r) PROVE PushInv'
    <2>1. run[r].pc = "post" /\ UNCHANGED <<device, table>>
      BY <1>1 DEF Post, At
    <2>2. PICK ok \in BOOLEAN : /\ Answered(r, ok) /\ pushed \subseteq pushed'
                                /\ ok => Sending(r) \subseteq pushed'
      BY <1>1 DEF Post
    <2> QED
      BY <2>1, <2>2, PushInvAnswered
  <1>2. ASSUME NEW r \in Runs, RunStep(r) \/ Fail(r) PROVE PushInv'
    BY <1>1, <1>2, PushInvDetect, PushInvPersist, PushInvDispatch, PushInvLookup,
       PushInvCommit, PushInvFail DEF RunStep
  <1>3. CASE \E d \in Devices, u \in Users : Register(d, u)
    BY <1>3, PushInvRegister
  <1>4. CASE UNCHANGED alertVars
    <2>1. UNCHANGED <<device, run, table, pushed>>
      BY <1>4 DEF alertVars
    <2>2. SentMeansAccepted'
      BY <2>1, SentStays DEF PushInv
    <2>3. \A r \in Runs : SeenDevices(run[r])' /\ RowsAccepted(r, run[r].rows)'
      BY <2>1 DEF PushInv, SeenDevices, RowsAccepted, AcceptedFor
    <2> QED
      BY <2>1, <2>2, <2>3 DEF PushInv
  <1>5. \/ \E t \in Tickets, u \in Users : Mint(t, u)
        \/ \E t \in Tickets : Expire(t) \/ \E s \in Sockets : Admit(s, t)
        \/ \E s \in Sockets : Subscribe(s) \/ Disconnect(s)
        \/ UNCHANGED vars
        => UNCHANGED alertVars
    BY DEF Mint, Expire, Admit, Subscribe, Disconnect, vars, alertVars
  <1> QED
    BY <1>2, <1>3, <1>4, <1>5 DEF Next

(* sent_at of a stored notification means that Expo accepted it, for its    *)
(* own user, whatever failed before and after.                              *)
THEOREM SentWasAccepted == Spec => []SentMeansAccepted
  <1>1. PushInv => SentMeansAccepted
    BY DEF PushInv
  <1> QED
    BY <1>1, PushInvInit, PushInvStep, PTL DEF Spec

(* A push goes to a device that its user has had since this dispatch began, *)
(* however devices change hands.                                            *)
THEOREM PushesGoToSeenDevices == Spec => []PushesFollowDevices
  <1>1. PushInv => PushesFollowDevices
    <2> SUFFICES ASSUME PushInv, NEW r \in Runs, At(r, "post"), NEW d \in run[r].tokens
                 PROVE  <<d, run[r].rows[run[r].at].alert.user>> \in run[r].held
      BY DEF PushesFollowDevices, Sending
    <2> QED
      BY DEF PushInv, SeenDevices, At
  <1> QED
    BY <1>1, PushInvInit, PushInvStep, PTL DEF Spec

-----------------------------------------------------------------------------
(* What flattening a sequence of sequences returns.                         *)

(* f flattens seqs: it returns, for each n, the first n of them, one after   *)
(* the other.                                                               *)
Flattens(f, seqs, n) ==
    f = [i \in 1 .. n |-> IF i = 1 THEN seqs[i] ELSE f[i - 1] \o seqs[i]]

(* There is such a function, for as many of the sequences as one likes.     *)
LEMMA FlattensExists ==
  ASSUME NEW seqs, NEW n \in Nat
  PROVE  \E f : Flattens(f, seqs, n)
  <1> DEFINE Bad == {m \in Nat : ~ \E f : Flattens(f, seqs, m)}
  <1> SUFFICES ASSUME n \in Bad PROVE FALSE
    OBVIOUS
  <1>1. PICK m \in Bad : \A k \in Bad : m <= k
    <2> HIDE DEF Bad
    <2>1. Bad \in SUBSET Nat
      BY DEF Bad
    <2> QED
      BY <2>1, LeastExists
  <1>2. m # 0
    <2> DEFINE f == [i \in 1 .. 0 |-> <<>>]
    <2>1. Flattens(f, seqs, 0)
      BY DEF Flattens
    <2> QED
      BY <2>1
  <1>3. m - 1 \in Nat /\ m - 1 \notin Bad
    BY <1>1, <1>2
  <1>4. PICK f : Flattens(f, seqs, m - 1)
    BY <1>3
  <1> DEFINE g == [i \in 1 .. m |-> IF i = m THEN (IF i = 1 THEN seqs[i] ELSE f[i - 1] \o seqs[i])
                                    ELSE f[i]]
  <1>5. ASSUME NEW i \in 1 .. m
        PROVE  g[i] = IF i = 1 THEN seqs[i] ELSE g[i - 1] \o seqs[i]
    <2>1. CASE i = m
      <3>1. i # 1 => g[i - 1] = f[i - 1]
        BY <2>1
      <3> QED
        BY <3>1, <2>1
    <2>2. CASE i # m
      <3> DEFINE R == [j \in 1 .. (m - 1) |-> IF j = 1 THEN seqs[j] ELSE f[j - 1] \o seqs[j]]
      <3>0. f = R
        BY <1>4, Zenon DEF Flattens
      <3>1. f[i] = IF i = 1 THEN seqs[i] ELSE f[i - 1] \o seqs[i]
        <4>1. i \in 1 .. (m - 1)
          BY <2>2
        <4>2. R[i] = IF i = 1 THEN seqs[i] ELSE f[i - 1] \o seqs[i]
          BY <4>1
        <4> QED
          BY <4>2, <3>0, Zenon
      <3>2. i # 1 => g[i - 1] = f[i - 1]
        BY <2>2
      <3> QED
        BY <2>2, <3>1, <3>2
    <2> QED
      BY <2>1, <2>2
  <1>6. g = [i \in 1 .. m |-> g[i]]
    OBVIOUS
  <1>7. Flattens(g, seqs, m)
    <2> HIDE DEF g
    <2> QED
      BY <1>5, <1>6, Zenon DEF Flattens
  <1> QED
    BY <1>7

(* A flattened sequence is the last value of a function that flattens.      *)
LEMMA FlattenIs ==
  ASSUME NEW seqs, NEW n \in Nat \ {0}, Len(seqs) = n
  PROVE  \E f : Flattens(f, seqs, n) /\ FlattenSeq(seqs) = f[n]
  <1> DEFINE F(f) == f = [i \in 1 .. Len(seqs) |-> IF i = 1 THEN seqs[i] ELSE f[i - 1] \o seqs[i]]
  <1>1. FlattenSeq(seqs) = (CHOOSE f : F(f))[n]
    <2>1. Len(seqs) # 0
      OBVIOUS
    <2> QED
      BY <2>1, Zenon DEF FlattenSeq
  <1>2. \E f : F(f)
    BY FlattensExists, Zenon DEF Flattens
  <1> QED
    BY <1>1, <1>2, Zenon DEF Flattens

(* Sequences over one set, flattened, are a sequence over it.               *)
LEMMA FlattenKeeps ==
  ASSUME NEW S, NEW seqs, NEW n \in Nat, DOMAIN seqs = 1 .. n, seqs \in Seq(Seq(S))
  PROVE  FlattenSeq(seqs) \in Seq(S)
  <1>1. Len(seqs) = n
    OBVIOUS
  <1>2. CASE n = 0
    <2>1. FlattenSeq(seqs) = seqs
      BY <1>1, <1>2 DEF FlattenSeq
    <2>2. seqs = <<>>
      BY <1>1, <1>2
    <2> QED
      BY <2>1, <2>2
  <1>3. CASE n # 0
    <2>3. PICK f : Flattens(f, seqs, n) /\ FlattenSeq(seqs) = f[n]
      BY <1>1, <1>3, FlattenIs
    <2> DEFINE Bad == {m \in Nat : m \in 1 .. n /\ f[m] \notin Seq(S)}
    <2>4. SUFFICES ASSUME Bad # {} PROVE FALSE
      <3>1. n \in 1 .. n
        BY <1>3
      <3>2. FlattenSeq(seqs) = f[n]
        BY <2>3, Zenon
      <3> QED
        BY <3>1, <3>2
    <2>5. PICK m \in Bad : \A k \in Bad : m <= k
      <3>1. Bad \in SUBSET Nat
        OBVIOUS
      <3> HIDE DEF Bad
      <3> QED
        BY <3>1, <2>4, LeastExists
    <2>6. seqs[m] \in Seq(S)
      BY <1>1
    <2>7. f[m] = IF m = 1 THEN seqs[m] ELSE f[m - 1] \o seqs[m]
      <3>1. m \in 1 .. Len(seqs)
        BY <1>1
      <3> QED
        BY <1>1, <2>3, <3>1, Zenon DEF Flattens
    <2>8. m # 1 => f[m - 1] \in Seq(S)
      <3>1. m - 1 \notin Bad
        BY <2>5
      <3> QED
        BY <3>1, <2>5
    <2>9. f[m] \in Seq(S)
      BY <2>6, <2>7, <2>8
    <2> QED
      BY <2>9
  <1> QED
    BY <1>2, <1>3

-----------------------------------------------------------------------------
(* How often things occur in a sequence.                                    *)

Times(e, x) == Cardinality({i \in DOMAIN e : e[i] = x})

(* Never, in an empty one.                                                  *)
LEMMA TimesEmpty == ASSUME NEW x PROVE Times(<<>>, x) = 0
  <1>1. {i \in DOMAIN <<>> : <<>>[i] = x} = {}
    OBVIOUS
  <1> QED
    BY <1>1, FS_EmptySet DEF Times

(* A finite number of times.                                                *)
LEMMA TimesNat ==
  ASSUME NEW S, NEW e \in Seq(S), NEW x
  PROVE  IsFiniteSet({i \in DOMAIN e : e[i] = x}) /\ Times(e, x) \in Nat
  <1>1. IsFiniteSet(DOMAIN e)
    <2>1. DOMAIN e = 1 .. Len(e) /\ Len(e) \in Int
      OBVIOUS
    <2>2. \A n \in Int : IsFiniteSet(1 .. n)
      BY FS_Interval
    <2> QED
      BY <2>1, <2>2
  <1>2. IsFiniteSet({i \in DOMAIN e : e[i] = x})
    BY <1>1, FS_Subset
  <1> QED
    BY <1>2, FS_CardinalityType DEF Times

(* What is added at the end occurs once more.                               *)
LEMMA TimesAppend ==
  ASSUME NEW S, NEW e \in Seq(S), NEW y \in S, NEW x
  PROVE  Times(Append(e, y), x) = Times(e, x) + (IF y = x THEN 1 ELSE 0)
  <1> DEFINE A == {i \in DOMAIN e : e[i] = x}
             n == Len(e) + 1
             B == {i \in DOMAIN Append(e, y) : Append(e, y)[i] = x}
  <1>1. IsFiniteSet(A)
    BY TimesNat
  <1>0. n \notin A
    <2>1. DOMAIN e = 1 .. Len(e) /\ Len(e) \in Nat
      OBVIOUS
    <2> QED
      BY <2>1
  <1>2. B = IF y = x THEN A \union {n} ELSE A
    OBVIOUS
  <1>3. Cardinality(A \union {n}) = Cardinality(A) + 1
    <2> HIDE DEF A, n
    <2> QED
      BY <1>0, <1>1, FS_AddElement
  <1>4. Cardinality(A) \in Nat
    BY TimesNat DEF Times
  <1>5. Times(e, x) = Cardinality(A) /\ Times(Append(e, y), x) = Cardinality(B)
    BY DEF Times
  <1> HIDE DEF A, B, n
  <1> QED
    BY <1>2, <1>3, <1>4, <1>5

(* The occurrences in two sequences, one after the other, add up.           *)
LEMMA TimesConcat ==
  ASSUME NEW S, NEW e \in Seq(S), NEW f \in Seq(S), NEW x
  PROVE  Times(e \o f, x) = Times(e, x) + Times(f, x)
  <1> DEFINE m == Len(e)
             A == {i \in DOMAIN e : e[i] = x}
             B == {i \in DOMAIN f : f[i] = x}
             C == {i \in DOMAIN (e \o f) : (e \o f)[i] = x}
             D == {i \in m + 1 .. m + Len(f) : f[i - m] = x}
             g == [i \in B |-> i + m]
  <1>1. IsFiniteSet(A) /\ IsFiniteSet(B)
    BY TimesNat
  <1>2. g \in Bijection(B, D)
    <2>1. \A i \in B : i \in Nat /\ i + m \in D
      OBVIOUS
    <2>2. \A i, j \in B : g[i] = g[j] => i = j
      BY <2>1
    <2>3. ASSUME NEW d \in D PROVE d - m \in B /\ g[d - m] = d
      <3>1. d - m \in 1 .. Len(f) /\ (d - m) + m = d
        OBVIOUS
      <3> QED
        BY <3>1
    <2>4. g \in [B -> D]
      BY <2>1
    <2> HIDE DEF B, D, g
    <2> QED
      BY <2>2, <2>3, <2>4 DEF Bijection, Injection, Surjection, IsInjective
  <1>3. IsFiniteSet(D) /\ Cardinality(D) = Cardinality(B)
    <2> HIDE DEF B, D, g
    <2>1. ExistsBijection(B, D)
      BY <1>2 DEF ExistsBijection
    <2> QED
      BY <1>1, <2>1, FS_Bijection
  <1>4. C = A \union D /\ A \intersect D = {}
    <2>1. /\ DOMAIN (e \o f) = 1 .. m + Len(f) /\ DOMAIN e = 1 .. m
          /\ \A i \in 1 .. m + Len(f) : (e \o f)[i] = IF i <= m THEN e[i] ELSE f[i - m]
      OBVIOUS
    <2>2. m \in Nat /\ Len(f) \in Nat
      OBVIOUS
    <2> HIDE DEF m
    <2>3. ASSUME NEW i PROVE i \in C <=> i \in A \/ i \in D
      <3>1. CASE i \in 1 .. m
        BY <2>1, <2>2, <3>1
      <3>2. CASE i \in m + 1 .. m + Len(f)
        BY <2>1, <2>2, <3>2
      <3>3. CASE i \notin 1 .. m + Len(f)
        BY <2>1, <2>2, <3>3
      <3> QED
        BY <2>2, <3>1, <3>2, <3>3
    <2>4. A \intersect D = {}
      BY <2>1, <2>2
    <2> HIDE DEF A, C, D
    <2> QED
      BY <2>3, <2>4
  <1>5. Cardinality(A \union D) = Cardinality(A) + Cardinality(D)
    <2> HIDE DEF A, D
    <2>1. Cardinality(A \intersect D) = 0
      BY <1>4, FS_EmptySet
    <2>2. Cardinality(A) \in Nat /\ Cardinality(D) \in Nat
      BY <1>1, <1>3, FS_CardinalityType
    <2>3. Cardinality(A \union D) =
              Cardinality(A) + Cardinality(D) - Cardinality(A \intersect D)
      BY <1>1, <1>3, FS_Union, Zenon
    <2> QED
      BY <2>1, <2>2, <2>3
  <1> QED
    BY <1>3, <1>4, <1>5 DEF Times

-----------------------------------------------------------------------------
(* What a run owes, and what it tells.                                      *)

(* One turn of detect_earnings_alerts, and what it starts from.             *)
NoneTold == [seen |-> {}, out |-> <<>>]

Tell(acc, row) ==
    IF ~Soon(row.inst) \/ <<row.user, row.inst>> \in acc.seen THEN acc
    ELSE [seen |-> acc.seen \union {<<row.user, row.inst>>},
          out  |-> Append(acc.out, Alert(row.user, "earnings", row.inst))]

(* g tells the rows of each part of D, the last one last.                   *)
Tells(g, D) ==
    g = [s \in SUBSET D |-> IF s = {} THEN NoneTold ELSE Tell(g[s \ {Max(s)}], Rows[Max(s)])]

(* If some function does, the fold is one.                                  *)
LEMMA EarningsTold ==
  ASSUME NEW g, Tells(g, DOMAIN Rows)
  PROVE  \E k : Tells(k, DOMAIN Rows) /\ Earnings = k[DOMAIN Rows].out
  BY DEF Tells, Tell, NoneTold, Earnings, FoldLeft, MapThenFoldSet


(* Some function does, for as many rows as one likes.                       *)
LEMMA TellsExists ==
  ASSUME NEW n \in Nat
  PROVE  \E g : Tells(g, 1 .. n)
  <1> DEFINE Bad == {m \in Nat : ~ \E g : Tells(g, 1 .. m)}
  <1> SUFFICES ASSUME n \in Bad PROVE FALSE
    OBVIOUS
  <1>1. PICK m \in Bad : \A k \in Bad : m <= k
    <2>1. Bad \in SUBSET Nat
      OBVIOUS
    <2> HIDE DEF Bad
    <2> QED
      BY <2>1, LeastExists
  <1>2. m # 0
    <2> DEFINE g == [s \in SUBSET (1 .. 0) |-> NoneTold]
    <2>1. Tells(g, 1 .. 0)
      <3>1. \A s \in SUBSET (1 .. 0) : s = {}
        OBVIOUS
      <3> QED
        BY <3>1 DEF Tells
    <2> QED
      BY <2>1
  <1>3. m - 1 \in Nat /\ m - 1 \notin Bad
    BY <1>1, <1>2
  <1>4. PICK g : Tells(g, 1 .. m - 1)
    BY <1>3
  <1> DEFINE h == [s \in SUBSET (1 .. m) |-> IF m \in s THEN Tell(g[s \ {m}], Rows[m]) ELSE g[s]]
  <1>5. ASSUME NEW s \in SUBSET (1 .. m)
        PROVE  h[s] = IF s = {} THEN NoneTold ELSE Tell(h[s \ {Max(s)}], Rows[Max(s)])
    <2>1. \A t \in SUBSET (1 .. m) : m \notin t => h[t] = g[t] /\ t \in SUBSET (1 .. m - 1)
      OBVIOUS
    <2>2. CASE m \in s
      <3>1. Max(s) = m
        BY <2>2, MaxIs
      <3>2. h[s \ {m}] = g[s \ {m}]
        <4> HIDE DEF h
        <4> QED
          BY <2>1
      <3>3. h[s] = Tell(g[s \ {m}], Rows[m])
        BY <2>2
      <3> HIDE DEF h
      <3> QED
        BY <2>2, <3>1, <3>2, <3>3
    <2>3. CASE m \notin s
      <3>1. s \in SUBSET (1 .. m - 1) /\ h[s] = g[s]
        BY <2>1, <2>3
      <3>2. g[s] = IF s = {} THEN NoneTold ELSE Tell(g[s \ {Max(s)}], Rows[Max(s)])
        BY <1>4, <3>1 DEF Tells
      <3>3. h[s \ {Max(s)}] = g[s \ {Max(s)}]
        <4>1. s \ {Max(s)} \in SUBSET (1 .. m) /\ m \notin s \ {Max(s)}
          BY <2>3
        <4> HIDE DEF h
        <4> QED
          BY <2>1, <4>1
      <3> HIDE DEF h
      <3> QED
        BY <3>1, <3>2, <3>3
    <2> QED
      BY <2>2, <2>3
  <1>6. h = [s \in SUBSET (1 .. m) |-> h[s]]
    OBVIOUS
  <1>7. Tells(h, 1 .. m)
    <2> HIDE DEF h
    <2> QED
      BY <1>5, <1>6, Zenon DEF Tells
  <1> QED
    BY <1>7

(* What the rows before the n-th owe of earnings.                           *)
DueBy(a, n) ==
    a.kind = "earnings" /\ Soon(a.about)
      /\ \E i \in 1 .. n : Rows[i].user = a.user /\ Rows[i].inst = a.about

(* After n rows, the alerts are those of the pairs seen, each once.         *)
ToldBy(acc, n) ==
    /\ DOMAIN acc = {"seen", "out"} /\ acc.out \in Seq(AlertSet)
    /\ \A u, i : <<u, i>> \in acc.seen <=>
           Soon(i) /\ \E k \in 1 .. n : Rows[k].user = u /\ Rows[k].inst = i
    /\ \A a \in AlertSet : Times(acc.out, a) = IF DueBy(a, n) THEN 1 ELSE 0


(* A position belongs to a user and an instrument.                          *)
LEMMA RowIs ==
  ASSUME NEW n \in 1 .. Len(Rows)
  PROVE  Rows[n].user \in Users /\ Rows[n].inst \in Instruments
  <1>1. Rows[n] \in [user : Users, inst : Instruments, open : BOOLEAN]
    <2>1. ASSUME NEW S, Rows \in Seq(S) PROVE Rows[n] \in S
      BY <2>1
    <2> QED
      BY <2>1, AlertsAssumption, Zenon
  <1> QED
    BY <1>1

(* What the alerts of this module are about.                                *)
LEMMA AlertIs ==
  /\ \A u \in Users, i \in Instruments : /\ Alert(u, "volatility", i) \in AlertSet
                                          /\ Alert(u, "earnings", i) \in AlertSet
  /\ \A u \in Users, x \in ToSet(Series) : Alert(u, "macro", x) \in AlertSet
  /\ \A a \in AlertSet : a = Alert(a.user, a.kind, a.about)
  /\ \A u, k, x : LET a == Alert(u, k, x) IN a.user = u /\ a.kind = k /\ a.about = x
  BY DEF Alert, AlertSet

(* One turn keeps it.                                                       *)
LEMMA TellKeeps ==
  ASSUME NEW n \in 1 .. Len(Rows), NEW acc, ToldBy(acc, n - 1)
  PROVE  ToldBy(Tell(acc, Rows[n]), n)
  <1> DEFINE u == Rows[n].user
             i == Rows[n].inst
             new == Alert(u, "earnings", i)
  <1>1. u \in Users /\ i \in Instruments
    BY RowIs
  <1>2. \A P, Q : (\E k \in 1 .. n : Rows[k].user = P /\ Rows[k].inst = Q) <=>
            (\E k \in 1 .. n - 1 : Rows[k].user = P /\ Rows[k].inst = Q) \/ (P = u /\ Q = i)
    OBVIOUS
  <1>3. CASE ~Soon(i) \/ <<u, i>> \in acc.seen
    <2>1. Tell(acc, Rows[n]) = acc
      BY <1>3 DEF Tell
    <2>2. \A P, Q : (Soon(Q) /\ \E k \in 1 .. n : Rows[k].user = P /\ Rows[k].inst = Q) <=>
              (Soon(Q) /\ \E k \in 1 .. n - 1 : Rows[k].user = P /\ Rows[k].inst = Q)
      BY <1>2, <1>3 DEF ToldBy
    <2>3. \A a : DueBy(a, n) <=> DueBy(a, n - 1)
      BY <2>2 DEF DueBy
    <2>4. \A a \in AlertSet : Times(acc.out, a) = IF DueBy(a, n) THEN 1 ELSE 0
      BY <2>3 DEF ToldBy
    <2>5. ASSUME NEW P, NEW Q
          PROVE  <<P, Q>> \in acc.seen <=>
                     Soon(Q) /\ \E k \in 1 .. n : Rows[k].user = P /\ Rows[k].inst = Q
      <3>1. <<P, Q>> \in acc.seen <=>
                Soon(Q) /\ \E k \in 1 .. n - 1 : Rows[k].user = P /\ Rows[k].inst = Q
        BY DEF ToldBy
      <3> QED
        BY <3>1, <2>2
    <2>6. DOMAIN acc = {"seen", "out"} /\ acc.out \in Seq(AlertSet)
      BY DEF ToldBy
    <2>7. ToldBy(acc, n)
      BY <2>4, <2>5, <2>6 DEF ToldBy
    <2> QED
      BY <2>1, <2>7
  <1>4. CASE ~(~Soon(i) \/ <<u, i>> \in acc.seen)
    <2> DEFINE next == [seen |-> acc.seen \union {<<u, i>>}, out |-> Append(acc.out, new)]
    <2>1. Tell(acc, Rows[n]) = next
      BY <1>4 DEF Tell
    <2>2. DOMAIN next = {"seen", "out"} /\ next.seen = acc.seen \union {<<u, i>>}
          /\ next.out = Append(acc.out, new)
      OBVIOUS
    <2>3. new \in AlertSet /\ acc.out \in Seq(AlertSet)
      BY <1>1, AlertIs DEF ToldBy
    <2>4. next.out \in Seq(AlertSet)
      BY <2>2, <2>3
    <2>5. ASSUME NEW P, NEW Q
          PROVE  <<P, Q>> \in next.seen <=>
                     Soon(Q) /\ \E k \in 1 .. n : Rows[k].user = P /\ Rows[k].inst = Q
      <3>1. <<P, Q>> \in next.seen <=> <<P, Q>> \in acc.seen \/ (P = u /\ Q = i)
        BY <2>2
      <3>2. <<P, Q>> \in acc.seen <=>
              Soon(Q) /\ \E k \in 1 .. n - 1 : Rows[k].user = P /\ Rows[k].inst = Q
        BY DEF ToldBy
      <3>3. Soon(i)
        BY <1>4
      <3>4. (\E k \in 1 .. n : Rows[k].user = P /\ Rows[k].inst = Q) <=>
              (\E k \in 1 .. n - 1 : Rows[k].user = P /\ Rows[k].inst = Q) \/ (P = u /\ Q = i)
        BY <1>2
      <3> HIDE DEF next, u, i
      <3> QED
        BY <3>1, <3>2, <3>3, <3>4
    <2>6. ASSUME NEW a \in AlertSet
          PROVE  Times(next.out, a) = IF DueBy(a, n) THEN 1 ELSE 0
      <3>1. Times(next.out, a) = Times(acc.out, a) + (IF new = a THEN 1 ELSE 0)
        BY <2>2, <2>3, TimesAppend
      <3>2. Times(acc.out, a) = IF DueBy(a, n - 1) THEN 1 ELSE 0
        BY DEF ToldBy
      <3>3. new = a <=> a.user = u /\ a.kind = "earnings" /\ a.about = i
        BY AlertIs
      <3>4. DueBy(a, n) <=> DueBy(a, n - 1) \/ new = a
        BY <1>2, <1>4, <3>3 DEF DueBy
      <3>5. ~(DueBy(a, n - 1) /\ new = a)
        BY <1>4, <3>3 DEF DueBy, ToldBy
      <3> HIDE DEF next, new
      <3>6. CASE new = a
        BY <3>1, <3>2, <3>4, <3>5, <3>6
      <3>7. CASE new # a
        BY <3>1, <3>2, <3>4, <3>7
      <3> QED
        BY <3>6, <3>7
    <2> HIDE DEF next
    <2> QED
      BY <2>1, <2>2, <2>4, <2>5, <2>6 DEF ToldBy
  <1> QED
    BY <1>3, <1>4

(* The earnings alerts are a sequence with one for each user and symbol.    *)
LEMMA EarningsOnce ==
  /\ Earnings \in Seq(AlertSet)
  /\ \A a \in AlertSet : Times(Earnings, a) = IF DueBy(a, Len(Rows)) THEN 1 ELSE 0
  <1> DEFINE N == Len(Rows)
  <1>1. N \in Nat /\ DOMAIN Rows = 1 .. N
    BY AlertsAssumption
  <1>2. PICK k : Tells(k, 1 .. N) /\ Earnings = k[1 .. N].out
    BY <1>1, TellsExists, EarningsTold
  <1> DEFINE Bad == {n \in Nat : n <= N /\ ~ToldBy(k[1 .. n], n)}
  <1> HIDE DEF N
  <1>3. Bad = {}
    <2> SUFFICES ASSUME Bad # {} PROVE FALSE
      OBVIOUS
    <2>1. PICK n \in Bad : \A m \in Bad : n <= m
      <3>1. Bad \in SUBSET Nat
        OBVIOUS
      <3> HIDE DEF Bad
      <3> QED
        BY <3>1, LeastExists
    <2>2. CASE n = 0
      <3>1. {} \in SUBSET (1 .. N) /\ 1 .. 0 = {}
        OBVIOUS
      <3>2. k[{}] = NoneTold
        BY <1>2, <3>1 DEF Tells
      <3>3. /\ DOMAIN NoneTold = {"seen", "out"} /\ NoneTold.out = <<>>
            /\ NoneTold.seen = {}
        BY DEF NoneTold
      <3>4. \A a \in AlertSet : Times(<<>>, a) = 0
        BY TimesEmpty
      <3>5. \A a : ~DueBy(a, 0)
        BY DEF DueBy
      <3> HIDE DEF NoneTold
      <3>6. ToldBy(NoneTold, 0)
        BY <3>3, <3>4, <3>5 DEF ToldBy
      <3> QED
        BY <2>1, <2>2, <3>1, <3>2, <3>6
    <2>3. CASE n # 0
      <3>1. n \in 1 .. N /\ n - 1 \in Nat /\ n - 1 \notin Bad
        BY <1>1, <2>1, <2>3
      <3>2. ToldBy(k[1 .. n - 1], n - 1)
        BY <1>1, <3>1
      <3>3. Max(1 .. n) = n /\ (1 .. n) \ {n} = 1 .. n - 1
        <4>1. 1 .. n \in SUBSET Int /\ n \in 1 .. n /\ \A x \in 1 .. n : x <= n
          BY <1>1, <3>1
        <4>2. (1 .. n) \ {n} = 1 .. n - 1
          BY <1>1, <3>1
        <4> QED
          BY <4>1, <4>2, MaxIs
      <3>4. k[1 .. n] = Tell(k[1 .. n - 1], Rows[n])
        <4>1. 1 .. n \in SUBSET (1 .. N) /\ 1 .. n # {}
          <5>1. \A x \in 1 .. n : x \in 1 .. N
            BY <3>1, <1>1
          <5>2. n \in 1 .. n
            BY <3>1, <1>1
          <5> QED
            BY <5>1, <5>2
        <4>2. k[1 .. n] = Tell(k[(1 .. n) \ {Max(1 .. n)}], Rows[Max(1 .. n)])
          BY <1>2, <4>1 DEF Tells
        <4> QED
          BY <3>3, <4>2
      <3>5. ToldBy(k[1 .. n], n)
        BY <3>1, <3>2, <3>4, TellKeeps DEF N
      <3> QED
        BY <2>1, <3>5
    <2> QED
      BY <2>2, <2>3
  <1>4. ToldBy(k[1 .. N], N)
    BY <1>1, <1>3
  <1> QED
    BY <1>2, <1>4 DEF ToldBy, N


(* A finite set as a sequence: each of its members, once.                   *)
LEMMA SetToSeqIs ==
  ASSUME NEW S, IsFiniteSet(S)
  PROVE  /\ SetToSeq(S) \in [1 .. Cardinality(S) -> S]
         /\ \A i, j \in 1 .. Cardinality(S) : SetToSeq(S)[i] = SetToSeq(S)[j] => i = j
         /\ \A x \in S : \E i \in 1 .. Cardinality(S) : SetToSeq(S)[i] = x
         /\ Cardinality(S) \in Nat
  <1> DEFINE D == 1 .. Cardinality(S)
             f == SetToSeq(S)
  <1>1. Cardinality(S) \in Nat /\ ExistsBijection(D, S)
    BY FS_CardinalityType
  <1>2. \E g \in [D -> S] : IsInjective(g)
    BY <1>1 DEF ExistsBijection, Bijection, Injection
  <1>3. f \in [D -> S] /\ IsInjective(f)
    BY <1>2 DEF SetToSeq
  <1>4. f \in Injection(D, S)
    BY <1>3 DEF Injection
  <1>5. Cardinality(D) = Cardinality(S)
    BY <1>1, FS_Interval
  <1> HIDE DEF f, D
  <1>6. f \in Surjection(D, S)
    BY <1>4, <1>5, FS_Injection
  <1>7. \A x \in S : \E i \in D : f[i] = x
    BY <1>6 DEF Surjection
  <1>8. \A i, j \in D : f[i] = f[j] => i = j
    BY <1>3 DEF IsInjective
  <1> QED
    BY <1>1, <1>3, <1>7, <1>8 DEF f, D

(* What a run owes of macro alerts, to one user and to the first n of us.   *)
DueOf(a, u, changes) == a.kind = "macro" /\ a.user = u /\ a.about \in changes

DueTo(a, us, n, changes) ==
    a.kind = "macro" /\ a.about \in changes /\ \E i \in 1 .. n : us[i] = a.user

(* One alert for each change, to one user.                                  *)
LEMMA MacroOfUser ==
  ASSUME NEW u \in Users, NEW changes \in SUBSET ToSet(Series), IsFiniteSet(changes)
  PROVE  LET cs == SetToSeq(changes)
             e == [j \in DOMAIN cs |-> Alert(u, "macro", cs[j])]
         IN  /\ e \in Seq(AlertSet)
             /\ \A a \in AlertSet : Times(e, a) = IF DueOf(a, u, changes) THEN 1 ELSE 0
  <1> DEFINE cs == SetToSeq(changes)
             c == Cardinality(changes)
             D == 1 .. c
             e == [j \in DOMAIN cs |-> Alert(u, "macro", cs[j])]
  <1>1. /\ DOMAIN cs = D /\ c \in Nat /\ \A j \in D : cs[j] \in changes
        /\ \A i, j \in D : cs[i] = cs[j] => i = j
        /\ \A x \in changes : \E i \in D : cs[i] = x
    BY SetToSeqIs
  <1>2. e \in Seq(AlertSet)
    <2>1. \A j \in D : Alert(u, "macro", cs[j]) \in AlertSet
      BY <1>1, AlertIs
    <2> HIDE DEF cs
    <2>2. e \in [D -> AlertSet]
      BY <1>1, <2>1
    <2> QED
      BY <1>1, <2>2
  <1>3. ASSUME NEW a \in AlertSet
        PROVE  Times(e, a) = IF DueOf(a, u, changes) THEN 1 ELSE 0
    <2> DEFINE T == {j \in DOMAIN e : e[j] = a}
    <2>1. \A j \in D : e[j] = a <=> a.user = u /\ a.kind = "macro" /\ a.about = cs[j]
      BY <1>1, AlertIs
    <2>2. DOMAIN e = D
      BY <1>1
    <2> HIDE DEF e, cs, D
    <2>3. CASE DueOf(a, u, changes)
      <3>1. PICK j \in D : cs[j] = a.about
        BY <1>1, <2>3 DEF DueOf
      <3>2. T = {j}
        BY <1>1, <2>1, <2>2, <2>3, <3>1 DEF DueOf
      <3> QED
        BY <2>3, <3>2, FS_Singleton DEF Times
    <2>4. CASE ~DueOf(a, u, changes)
      <3>1. T = {}
        BY <1>1, <2>1, <2>2, <2>4 DEF DueOf
      <3> QED
        BY <2>4, <3>1, FS_EmptySet DEF Times
    <2> QED
      BY <2>3, <2>4
  <1> QED
    BY <1>2, <1>3

(* One alert for each change, to each active user.                          *)
LEMMA MacroOnce ==
  ASSUME NEW changes \in SUBSET ToSet(Series), IsFiniteSet(changes)
  PROVE  /\ MacroAlerts(changes) \in Seq(AlertSet)
         /\ \A a \in AlertSet : Times(MacroAlerts(changes), a) =
                IF a.kind = "macro" /\ a.about \in changes /\ a.user \in ActiveUsers
                THEN 1 ELSE 0
  <1> DEFINE us == SetToSeq(ActiveUsers)
             n == Cardinality(ActiveUsers)
             cs == SetToSeq(changes)
             part(u) == [j \in DOMAIN cs |-> Alert(u, "macro", cs[j])]
             seqs == [i \in DOMAIN us |-> part(us[i])]
  <1>1. /\ DOMAIN us = 1 .. n /\ n \in Nat /\ \A i \in 1 .. n : us[i] \in ActiveUsers
        /\ \A i, j \in 1 .. n : us[i] = us[j] => i = j
        /\ \A x \in ActiveUsers : \E i \in 1 .. n : us[i] = x
    BY AlertsAssumption, SetToSeqIs
  <1>2. MacroAlerts(changes) = FlattenSeq(seqs)
    BY DEF MacroAlerts
  <1>3. ASSUME NEW u \in ActiveUsers
        PROVE  /\ part(u) \in Seq(AlertSet)
               /\ \A a \in AlertSet : Times(part(u), a) = IF DueOf(a, u, changes) THEN 1 ELSE 0
    BY AlertsAssumption, MacroOfUser
  <1> HIDE DEF us, n, part
  <1>4. Len(seqs) = n /\ DOMAIN seqs = 1 .. n /\ \A i \in 1 .. n : seqs[i] = part(us[i])
    BY <1>1
  <1> HIDE DEF seqs
  <1>5. CASE n = 0
    <2>1. seqs = <<>>
      BY <1>1, <1>5 DEF seqs
    <2>2. FlattenSeq(seqs) = <<>>
      BY <1>4, <1>5, <2>1 DEF FlattenSeq
    <2>3. ActiveUsers = {}
      BY <1>1, <1>5
    <2> QED
      BY <1>2, <2>2, <2>3, TimesEmpty
  <1>6. CASE n # 0
    <2>1. PICK f : Flattens(f, seqs, n) /\ FlattenSeq(seqs) = f[n]
      BY <1>1, <1>4, <1>6, FlattenIs
    <2> DEFINE Fine(m) == /\ f[m] \in Seq(AlertSet)
                          /\ \A a \in AlertSet : Times(f[m], a) =
                                 IF DueTo(a, us, m, changes) THEN 1 ELSE 0
               Bad == {m \in Nat : m \in 1 .. n /\ ~Fine(m)}
    <2>2. Bad = {}
      <3> SUFFICES ASSUME Bad # {} PROVE FALSE
        OBVIOUS
      <3>1. PICK m \in Bad : \A k \in Bad : m <= k
        <4>1. Bad \in SUBSET Nat
          OBVIOUS
        <4> HIDE DEF Bad
        <4> QED
          BY <4>1, LeastExists
      <3>2. m \in 1 .. n /\ ~Fine(m) /\ m \in Nat
        BY <3>1
      <3>3. m # 1 => Fine(m - 1) /\ m - 1 \in 1 .. n
        <4>1. m - 1 \notin Bad
          BY <3>1
        <4>2. m # 1 => m - 1 \in Nat /\ m - 1 \in 1 .. n
          BY <1>1, <3>2
        <4> HIDE DEF Fine
        <4> QED
          BY <4>1, <4>2
      <3>4. f[m] = IF m = 1 THEN seqs[m] ELSE f[m - 1] \o seqs[m]
        BY <2>1, <3>2, Zenon DEF Flattens
      <3>5. us[m] \in ActiveUsers /\ seqs[m] = part(us[m])
        BY <1>1, <1>4, <3>2
      <3>6. /\ seqs[m] \in Seq(AlertSet)
            /\ \A a \in AlertSet : Times(seqs[m], a) = IF DueOf(a, us[m], changes) THEN 1 ELSE 0
        BY <1>3, <3>5
      <3>7. f[m] \in Seq(AlertSet)
        BY <3>3, <3>4, <3>6
      <3>8. ASSUME NEW a \in AlertSet
            PROVE  Times(f[m], a) = IF DueTo(a, us, m, changes) THEN 1 ELSE 0
        <4>1. Times(seqs[m], a) = IF DueOf(a, us[m], changes) THEN 1 ELSE 0
          BY <3>6
        <4>2. CASE m = 1
          <5>1. DueTo(a, us, m, changes) <=> DueOf(a, us[m], changes)
            BY <4>2 DEF DueTo, DueOf
          <5> QED
            BY <3>4, <4>1, <4>2, <5>1
        <4>3. CASE m # 1
          <5>1. f[m - 1] \in Seq(AlertSet)
                /\ Times(f[m - 1], a) = IF DueTo(a, us, m - 1, changes) THEN 1 ELSE 0
            BY <3>3, <4>3
          <5>2. Times(f[m], a) = Times(f[m - 1], a) + Times(seqs[m], a)
            BY <3>4, <3>6, <4>3, <5>1, TimesConcat
          <5>3. DueTo(a, us, m, changes) <=>
                    DueTo(a, us, m - 1, changes) \/ DueOf(a, us[m], changes)
            BY <3>2, <4>3 DEF DueTo, DueOf
          <5>4. ~(DueTo(a, us, m - 1, changes) /\ DueOf(a, us[m], changes))
            BY <1>1, <3>2, <3>3, <4>3 DEF DueTo, DueOf
          <5>5. CASE DueOf(a, us[m], changes)
            BY <4>1, <5>1, <5>2, <5>3, <5>4, <5>5
          <5>6. CASE ~DueOf(a, us[m], changes)
            BY <4>1, <5>1, <5>2, <5>3, <5>6
          <5> QED
            BY <5>5, <5>6
        <4> QED
          BY <4>2, <4>3
      <3> QED
        BY <3>2, <3>7, <3>8
    <2>3. Fine(n)
      <3>1. n \in Nat /\ n \in 1 .. n
        BY <1>1, <1>6
      <3> HIDE DEF Fine
      <3> QED
        BY <2>2, <3>1
    <2>4. \A a : DueTo(a, us, n, changes) <=>
              a.kind = "macro" /\ a.about \in changes /\ a.user \in ActiveUsers
      BY <1>1 DEF DueTo
    <2> QED
      BY <1>2, <2>1, <2>3, <2>4
  <1> QED
    BY <1>5, <1>6


(* The volatile rows of a user and an instrument among the first n.         *)
Shaken(a, n) ==
    {i \in 1 .. n : Rows[i].user = a.user /\ Rows[i].inst = a.about /\ Volatile(bars[a.about])}

(* What is owed before the macro alerts are known, and when changes are.    *)
DueBefore(a) ==
    IF a.kind = "volatility" THEN Cardinality(Shaken(a, Len(Rows)))
    ELSE IF DueBy(a, Len(Rows)) THEN 1 ELSE 0

OwedNow(a, changes) ==
    IF a.kind # "macro" THEN DueBefore(a)
    ELSE IF a.about \in changes /\ a.user \in ActiveUsers THEN 1 ELSE 0

(* What a run has found, at each of its steps.                              *)
HasFound(x) ==
    /\ x.changes \in SUBSET ToSet(Series) /\ IsFiniteSet(x.changes)
    /\ x.pc = "idle" => x.at = 1 /\ x.events = <<>>
    /\ x.pc = "volatility" =>
         /\ x.at \in 1 .. Len(Rows) + 1 /\ x.events \in Seq(AlertSet)
         /\ \A a \in AlertSet : Times(x.events, a) =
                IF a.kind = "volatility" THEN Cardinality(Shaken(a, x.at - 1)) ELSE 0
    /\ x.pc = "macro" =>
         /\ x.at \in Nat \ {0} /\ x.events \in Seq(AlertSet)
         /\ \A a \in AlertSet : Times(x.events, a) =
                IF a.kind = "macro" THEN 0 ELSE DueBefore(a)
    /\ x.pc \in {"dispatch", "lookup", "post", "done"} =>
         /\ IsFiniteSet(DOMAIN x.rows)
         /\ \A a \in AlertSet :
                Cardinality({i \in DOMAIN x.rows : x.rows[i].alert = a}) = OwedNow(a, x.changes)

(* The table holds what the runs that are done had in hand.                 *)
HasStored(r, x) == {n \in table : n.id[1] = r} =
    IF x.pc = "done"
    THEN {[id |-> <<r, i>>, alert |-> x.rows[i].alert, sent |-> x.rows[i].sent] :
              i \in DOMAIN x.rows}
    ELSE {}

TellInv == \A r \in Runs : HasFound(run[r]) /\ HasStored(r, run[r])

(* Bars do not change while runs read them.                                 *)
LEMMA FoundStays ==
  ASSUME bars' = bars, NEW x, HasFound(x)
  PROVE  HasFound(x)'
  <1>1. \A a, n : Shaken(a, n)' = Shaken(a, n)
    BY DEF Shaken
  <1>2. \A a : DueBefore(a)' = DueBefore(a)
    BY <1>1, Zenon DEF DueBefore
  <1>3. \A a, c : OwedNow(a, c)' = OwedNow(a, c)
    BY <1>2, Zenon DEF OwedNow
  <1> QED
    BY <1>1, <1>2, <1>3 DEF HasFound

(* A run that is not done and will not be goes on.                          *)
LEMMA TellInvRun ==
  ASSUME PushInv, TellInv, NEW r \in Runs, NEW x, run' = [run EXCEPT ![r] = x],
         run[r].pc # "done", x.pc # "done", HasFound(x), UNCHANGED <<bars, table>>
  PROVE  TellInv'
  <1>1. \A o \in Runs : run'[o] = IF o = r THEN x ELSE run[o]
    BY DEF PushInv
  <1>2. HasFound(x)' /\ HasStored(r, x)'
    <2>1. {n \in table : n.id[1] = r} = {}
      BY DEF TellInv, HasStored
    <2> QED
      BY <2>1, FoundStays DEF HasStored
  <1>3. ASSUME NEW o \in Runs, o # r PROVE HasFound(run[o])' /\ HasStored(o, run[o])'
    <2>1. PICK y : y = run[o]
      OBVIOUS
    <2>2. HasFound(y) /\ HasStored(o, y)
      BY <2>1 DEF TellInv
    <2>4. HasFound(y)' /\ HasStored(o, y)'
      BY <2>2, FoundStays DEF HasStored
    <2>3. run'[o] = y
      BY <1>1, <1>3, <2>1
    <2> QED
      BY <2>3, <2>4 DEF HasFound, HasStored
  <1>4. HasFound(run[r])' /\ HasStored(r, run[r])'
    <2>1. run'[r] = x
      BY <1>1
    <2> QED
      BY <1>2, <2>1 DEF HasFound, HasStored
  <1> QED
    BY <1>3, <1>4 DEF TellInv

(* One turn of the volatility detector.                                     *)
LEMMA ShakenNext ==
  ASSUME NEW n \in 1 .. Len(Rows), NEW a
  PROVE  Cardinality(Shaken(a, n)) = Cardinality(Shaken(a, n - 1)) +
           (IF Rows[n].user = a.user /\ Rows[n].inst = a.about /\ Volatile(bars[a.about])
            THEN 1 ELSE 0)
  <1> DEFINE A == Shaken(a, n - 1)
             B == Shaken(a, n)
             hit == Rows[n].user = a.user /\ Rows[n].inst = a.about /\ Volatile(bars[a.about])
  <1>1. IsFiniteSet(A) /\ n \notin A
    <2>1. IsFiniteSet(1 .. n - 1)
      <3>1. \A k \in Int : IsFiniteSet(1 .. k)
        BY FS_Interval
      <3> QED
        BY <3>1
    <2>2. A \in SUBSET (1 .. n - 1) /\ n \notin A
      BY DEF Shaken
    <2> HIDE DEF A
    <2> QED
      BY <2>1, <2>2, FS_Subset
  <1>2. B = IF hit THEN A \union {n} ELSE A
    <2>1. \A i : i \in 1 .. n <=> i \in 1 .. n - 1 \/ i = n
      OBVIOUS
    <2> QED
      BY <2>1 DEF Shaken
  <1>3. Cardinality(A \union {n}) = Cardinality(A) + 1 /\ Cardinality(A) \in Nat
    BY <1>1, FS_AddElement, FS_CardinalityType
  <1> HIDE DEF A, B
  <1>4. CASE hit
    BY <1>2, <1>3, <1>4 DEF A, B
  <1>5. CASE ~hit
    BY <1>2, <1>3, <1>5 DEF A, B
  <1> QED
    BY <1>4, <1>5

(* The volatility detector, position by position.                           *)
LEMMA TellInvVolatility ==
  ASSUME PushInv, TellInv, NEW r \in Runs, Volatility(r)
  PROVE  TellInv'
  <1> DEFINE n == run[r].at
             row == Rows[n]
             new == Alert(row.user, "volatility", row.inst)
             old == run[r].events
             e == IF Volatile(bars[row.inst]) THEN Append(old, new) ELSE old
  <1>1. /\ IsRecord(run[r]) /\ HasFound(run[r]) /\ run[r].pc = "volatility"
        /\ n <= Len(Rows) /\ UNCHANGED <<bars, table>>
        /\ run' = [run EXCEPT ![r] = [run[r] EXCEPT !.at = @ + 1, !.events = e]]
    BY DEF PushInv, TellInv, Volatility, At, Goto, Same
  <1>2. /\ n \in 1 .. Len(Rows) /\ old \in Seq(AlertSet)
        /\ \A a \in AlertSet : Times(old, a) =
               IF a.kind = "volatility" THEN Cardinality(Shaken(a, n - 1)) ELSE 0
    BY <1>1, AlertsAssumption DEF HasFound
  <1>3. row.user \in Users /\ row.inst \in Instruments /\ new \in AlertSet
    BY <1>2, RowIs, AlertIs
  <1>4. e \in Seq(AlertSet)
    BY <1>2, <1>3
  <1>5. ASSUME NEW a \in AlertSet
        PROVE  Times(e, a) = IF a.kind = "volatility" THEN Cardinality(Shaken(a, n)) ELSE 0
    <2>1. new = a <=> a.user = row.user /\ a.kind = "volatility" /\ a.about = row.inst
      BY AlertIs
    <2>2. Times(Append(old, new), a) = Times(old, a) + (IF new = a THEN 1 ELSE 0)
      BY <1>2, <1>3, TimesAppend
    <2>3. Cardinality(Shaken(a, n)) = Cardinality(Shaken(a, n - 1)) +
           (IF row.user = a.user /\ row.inst = a.about /\ Volatile(bars[a.about])
            THEN 1 ELSE 0)
      BY <1>2, ShakenNext
    <2>4. Times(old, a) = IF a.kind = "volatility" THEN Cardinality(Shaken(a, n - 1)) ELSE 0
      BY <1>2
    <2>5. Times(old, a) \in Nat
      BY <1>2, TimesNat
    <2> HIDE DEF n, row, new, old
    <2>6. CASE Volatile(bars[row.inst])
      BY <2>1, <2>2, <2>3, <2>4, <2>5, <2>6
    <2>7. CASE ~Volatile(bars[row.inst])
      BY <2>1, <2>3, <2>4, <2>5, <2>7
    <2> QED
      BY <2>6, <2>7
  <1> DEFINE x == [run[r] EXCEPT !.at = @ + 1, !.events = e]
  <1>6. /\ x.pc = "volatility" /\ x.at = n + 1 /\ x.events = e /\ x.changes = run[r].changes
        /\ run' = [run EXCEPT ![r] = x]
    BY <1>1 DEF IsRecord, RunFields
  <1>7. x.at \in 1 .. Len(Rows) + 1 /\ x.at - 1 = n
    BY <1>2, <1>6
  <1> HIDE DEF x, e, n
  <1>8. HasFound(x)
    BY <1>1, <1>4, <1>5, <1>6, <1>7 DEF HasFound
  <1> QED
    BY <1>1, <1>6, <1>8, TellInvRun

(* The earnings, which follow all positions.                                *)
LEMMA TellInvEarnings ==
  ASSUME PushInv, TellInv, NEW r \in Runs, DetectEarnings(r)
  PROVE  TellInv'
  <1> DEFINE old == run[r].events
             e == old \o Earnings
             x == [run[r] EXCEPT !.pc = "macro", !.at = 1, !.events = e]
  <1>1. /\ IsRecord(run[r]) /\ HasFound(run[r]) /\ run[r].pc = "volatility"
        /\ run[r].at > Len(Rows) /\ UNCHANGED <<bars, table>>
        /\ run' = [run EXCEPT ![r] = x]
    BY DEF PushInv, TellInv, DetectEarnings, At, Goto, Same
  <1>2. /\ run[r].at \in 1 .. Len(Rows) + 1 /\ old \in Seq(AlertSet)
        /\ \A a \in AlertSet : Times(old, a) =
               IF a.kind = "volatility" THEN Cardinality(Shaken(a, run[r].at - 1)) ELSE 0
    BY <1>1 DEF HasFound
  <1>3. Len(Rows) \in Nat
    BY AlertsAssumption
  <1>4. run[r].at - 1 = Len(Rows)
    BY <1>1, <1>2, <1>3
  <1>5. e \in Seq(AlertSet)
    BY <1>2, EarningsOnce
  <1>6. ASSUME NEW a \in AlertSet
        PROVE  Times(e, a) = IF a.kind = "macro" THEN 0 ELSE DueBefore(a)
    <2>1. Times(e, a) = Times(old, a) + Times(Earnings, a)
      BY <1>2, EarningsOnce, TimesConcat
    <2>2. Times(Earnings, a) = IF DueBy(a, Len(Rows)) THEN 1 ELSE 0
      BY EarningsOnce
    <2>3. Times(old, a) =
               IF a.kind = "volatility" THEN Cardinality(Shaken(a, Len(Rows))) ELSE 0
      BY <1>2, <1>4
    <2>4. Times(old, a) \in Nat
      BY <1>2, TimesNat
    <2>5. DueBy(a, Len(Rows)) => a.kind = "earnings"
      BY DEF DueBy
    <2> HIDE DEF e, old
    <2> QED
      BY <2>1, <2>2, <2>3, <2>4, <2>5 DEF DueBefore
  <1>7. /\ x.pc = "macro" /\ x.at = 1 /\ x.events = e /\ x.changes = run[r].changes
    BY <1>1 DEF IsRecord, RunFields
  <1> HIDE DEF x, e
  <1>8. HasFound(x)
    BY <1>1, <1>5, <1>6, <1>7 DEF HasFound
  <1> QED
    BY <1>1, <1>7, <1>8, TellInvRun

(* One series: its change is material, or nothing is noted.                 *)
LEMMA TellInvMacro ==
  ASSUME PushInv, TellInv, NEW r \in Runs, Macro(r)
  PROVE  TellInv'
  <1>1. /\ IsRecord(run[r]) /\ HasFound(run[r]) /\ run[r].pc = "macro"
        /\ run[r].at <= Len(Series) /\ UNCHANGED <<bars, table>>
    BY DEF PushInv, TellInv, Macro, At, Same
  <1>2. PICK c \in {run[r].changes, run[r].changes \union {Series[run[r].at]}} :
            run' = [run EXCEPT ![r] = [run[r] EXCEPT !.at = @ + 1, !.changes = c]]
    <2>1. CASE Goto(r, [run[r] EXCEPT !.at = @ + 1])
      <3>1. [run[r] EXCEPT !.at = @ + 1] =
            [run[r] EXCEPT !.at = @ + 1, !.changes = run[r].changes]
        BY <1>1 DEF IsRecord, RunFields
      <3> QED
        BY <2>1, <3>1 DEF Goto
    <2> QED
      BY <2>1 DEF Macro, Goto
  <1>3. c \in SUBSET ToSet(Series) /\ IsFiniteSet(c)
    <2>1. run[r].at \in DOMAIN Series
      BY <1>1, AlertsAssumption DEF HasFound
    <2>2. Series[run[r].at] \in ToSet(Series)
      BY <2>1 DEF ToSet
    <2>3. run[r].changes \in SUBSET ToSet(Series) /\ IsFiniteSet(run[r].changes)
      BY <1>1 DEF HasFound
    <2>4. IsFiniteSet(run[r].changes \union {Series[run[r].at]})
      BY <2>3, FS_AddElement
    <2> QED
      BY <2>2, <2>3, <2>4
  <1> DEFINE x == [run[r] EXCEPT !.at = @ + 1, !.changes = c]
  <1>4. /\ x.pc = "macro" /\ x.at = run[r].at + 1 /\ x.events = run[r].events /\ x.changes = c
        /\ run' = [run EXCEPT ![r] = x]
    BY <1>1, <1>2 DEF IsRecord, RunFields
  <1> HIDE DEF x
  <1>5. HasFound(x)
    BY <1>1, <1>3, <1>4 DEF HasFound
  <1> QED
    BY <1>1, <1>4, <1>5, TellInvRun

(* What is inserted is what is owed.                                        *)
LEMMA TellInvPersist ==
  ASSUME PushInv, TellInv, NEW r \in Runs, Persist(r)
  PROVE  TellInv'
  <1> DEFINE old == run[r].events
             c == run[r].changes
             all == old \o MacroAlerts(c)
             x == [run[r] EXCEPT !.pc = "dispatch", !.at = 1,
                                 !.events = all, !.rows = Pending(all)]
  <1>1. /\ IsRecord(run[r]) /\ HasFound(run[r]) /\ run[r].pc = "macro"
        /\ UNCHANGED <<bars, table>> /\ run' = [run EXCEPT ![r] = x]
    BY DEF PushInv, TellInv, Persist, At, Goto, Same
  <1>2. /\ old \in Seq(AlertSet) /\ c \in SUBSET ToSet(Series) /\ IsFiniteSet(c)
        /\ \A a \in AlertSet : Times(old, a) = IF a.kind = "macro" THEN 0 ELSE DueBefore(a)
    BY <1>1 DEF HasFound
  <1>3. all \in Seq(AlertSet)
    BY <1>2, MacroOnce
  <1>4. ASSUME NEW a \in AlertSet PROVE Times(all, a) = OwedNow(a, c)
    <2>1. Times(all, a) = Times(old, a) + Times(MacroAlerts(c), a)
      BY <1>2, MacroOnce, TimesConcat
    <2>2. Times(MacroAlerts(c), a) =
              IF a.kind = "macro" /\ a.about \in c /\ a.user \in ActiveUsers THEN 1 ELSE 0
      BY <1>2, MacroOnce
    <2>3. Times(old, a) = IF a.kind = "macro" THEN 0 ELSE DueBefore(a)
      BY <1>2
    <2>4. Times(old, a) \in Nat
      BY <1>2, TimesNat
    <2> HIDE DEF all, old, c
    <2>5. CASE a.kind = "macro"
      BY <2>1, <2>2, <2>3, <2>5 DEF OwedNow
    <2>6. CASE a.kind # "macro"
      BY <2>1, <2>2, <2>3, <2>4, <2>6 DEF OwedNow
    <2> QED
      BY <2>5, <2>6
  <1>5. x.pc = "dispatch" /\ x.rows = Pending(all) /\ x.changes = c
    BY <1>1 DEF IsRecord, RunFields
  <1>6. IsFiniteSet(DOMAIN Pending(all))
    <2>1. DOMAIN all = 1 .. Len(all) /\ Len(all) \in Int
      BY <1>3
    <2>2. \A k \in Int : IsFiniteSet(1 .. k)
      BY FS_Interval
    <2> HIDE DEF all
    <2> QED
      BY <2>1, <2>2 DEF Pending
  <1>7. ASSUME NEW a
        PROVE  Cardinality({i \in DOMAIN Pending(all) : Pending(all)[i].alert = a}) = Times(all, a)
    <2>1. {i \in DOMAIN Pending(all) : Pending(all)[i].alert = a} = {i \in DOMAIN all : all[i] = a}
      BY DEF Pending
    <2> QED
      BY <2>1 DEF Times
  <1> HIDE DEF x, all, c
  <1>8. HasFound(x)
    BY <1>2, <1>4, <1>5, <1>6, <1>7 DEF HasFound
  <1> QED
    BY <1>1, <1>5, <1>8, TellInvRun


(* The dispatcher leaves what the rows are about as it is.                  *)
LEMMA TellInvSameAlerts ==
  ASSUME PushInv, TellInv, NEW r \in Runs, NEW x, run' = [run EXCEPT ![r] = x],
         run[r].pc \in {"dispatch", "lookup", "post"},
         x.pc \in {"dispatch", "lookup", "post"}, x.changes = run[r].changes,
         DOMAIN x.rows = DOMAIN run[r].rows,
         \A i \in DOMAIN x.rows : x.rows[i].alert = run[r].rows[i].alert,
         UNCHANGED <<bars, table>>
  PROVE  TellInv'
  <1>1. HasFound(run[r])
    BY DEF TellInv
  <1>2. ASSUME NEW a
        PROVE  {i \in DOMAIN x.rows : x.rows[i].alert = a} =
               {i \in DOMAIN run[r].rows : run[r].rows[i].alert = a}
    OBVIOUS
  <1>3. HasFound(x)
    BY <1>1, <1>2 DEF HasFound
  <1> QED
    BY <1>3, TellInvRun

(* The dispatcher's steps.                                                  *)
LEMMA TellInvDispatcher ==
  ASSUME PushInv, TellInv, NEW r \in Runs, Dispatch(r) \/ Lookup(r) \/ Post(r)
  PROVE  TellInv'
  <1>1. IsRecord(run[r]) /\ AreRows(run[r].rows) /\ UNCHANGED <<bars, table>>
    BY DEF PushInv, Dispatch, Lookup, Post, Same
  <1>2. CASE Dispatch(r)
    <2> DEFINE x == [run[r] EXCEPT !.pc = "lookup", !.held = Registered]
    <2>1. run' = [run EXCEPT ![r] = x] /\ run[r].pc = "dispatch"
      BY <1>2 DEF Dispatch, Goto, At
    <2>2. x.pc = "lookup" /\ x.changes = run[r].changes /\ x.rows = run[r].rows
      BY <1>1 DEF IsRecord, RunFields
    <2> HIDE DEF x
    <2> QED
      BY <1>1, <2>1, <2>2, TellInvSameAlerts
  <1>3. CASE Lookup(r)
    <2>1. PICK tokens : run' = [run EXCEPT ![r] =
              IF tokens = {} THEN [run[r] EXCEPT !.pc = "dispatch", !.at = @ + 1]
              ELSE [run[r] EXCEPT !.pc = "post", !.tokens = tokens]]
      BY <1>3 DEF Lookup, Goto
    <2>2. PICK x : x = IF tokens = {} THEN [run[r] EXCEPT !.pc = "dispatch", !.at = @ + 1]
                       ELSE [run[r] EXCEPT !.pc = "post", !.tokens = tokens]
      OBVIOUS
    <2>3. run' = [run EXCEPT ![r] = x] /\ run[r].pc = "lookup"
      BY <1>3, <2>1, <2>2 DEF Lookup, At
    <2>4. x.pc \in {"dispatch", "post"} /\ x.changes = run[r].changes /\ x.rows = run[r].rows
      BY <1>1, <2>2 DEF IsRecord, RunFields
    <2> QED
      BY <1>1, <2>3, <2>4, TellInvSameAlerts
  <1>4. CASE Post(r)
    <2>1. PICK ok : Answered(r, ok)
      BY <1>4 DEF Post
    <2> DEFINE at == run[r].at
               old == run[r].rows
    <2>2. PICK rows : rows = [old EXCEPT ![at].sent = @ \/ ok]
      OBVIOUS
    <2>3. PICK x : x = [run[r] EXCEPT !.pc = "dispatch", !.at = @ + 1,
                                      !.rows[run[r].at].sent = @ \/ ok]
      OBVIOUS
    <2>4. run' = [run EXCEPT ![r] = x] /\ run[r].pc = "post"
      BY <1>4, <2>1, <2>3 DEF Answered, Goto, Post, At
    <2>5. x.pc = "dispatch" /\ x.changes = run[r].changes /\ x.rows = rows
      BY <1>1, <2>2, <2>3 DEF IsRecord, RunFields
    <2>6. /\ DOMAIN rows = DOMAIN old
          /\ \A i \in DOMAIN old : i # at => rows[i] = old[i]
          /\ at \in DOMAIN old => rows[at] = [old[at] EXCEPT !.sent = @ \/ ok]
      BY <1>1, <2>2 DEF AreRows
    <2>7. at \in DOMAIN old => rows[at].alert = old[at].alert
      <3> SUFFICES ASSUME at \in DOMAIN old PROVE rows[at].alert = old[at].alert
        OBVIOUS
      <3>1. IsRow(old[at])
        BY <1>1 DEF AreRows
      <3>2. DOMAIN old[at] = {"alert", "sent"}
        BY <3>1 DEF IsRow
      <3> QED
        BY <2>6, <3>2
    <2>8. \A i \in DOMAIN old : rows[i].alert = old[i].alert
      BY <2>6, <2>7
    <2> QED
      BY <1>1, <2>4, <2>5, <2>6, <2>8, TellInvSameAlerts
  <1> QED
    BY <1>2, <1>3, <1>4

(* A run that begins or fails has found nothing.                            *)
LEMMA TellInvStart ==
  ASSUME PushInv, TellInv, NEW r \in Runs, Start(r) \/ Fail(r)
  PROVE  TellInv'
  <1>1. IsRecord(run[r]) /\ HasFound(run[r]) /\ UNCHANGED <<bars, table>>
    BY DEF PushInv, TellInv, Start, Fail, Same
  <1>2. CASE Start(r)
    <2> DEFINE x == [run[r] EXCEPT !.pc = "volatility"]
    <2>1. run' = [run EXCEPT ![r] = x] /\ run[r].pc = "idle"
      BY <1>2 DEF Start, Goto, At
    <2>2. x.pc = "volatility" /\ x.changes = run[r].changes /\ x.at = 1 /\ x.events = <<>>
      BY <1>1, <2>1 DEF IsRecord, RunFields, HasFound
    <2>3. Len(Rows) \in Nat
      BY AlertsAssumption
    <2>4. 1 \in 1 .. Len(Rows) + 1 /\ <<>> \in Seq(AlertSet) /\ 1 - 1 = 0
      BY <2>3
    <2>5. \A a : Shaken(a, 0) = {}
      BY DEF Shaken
    <2>6. \A a \in AlertSet : Times(<<>>, a) =
              IF a.kind = "volatility" THEN Cardinality(Shaken(a, 0)) ELSE 0
      BY <2>5, TimesEmpty, FS_EmptySet
    <2> HIDE DEF x
    <2>7. HasFound(x)
      BY <1>1, <2>2, <2>4, <2>6 DEF HasFound
    <2> QED
      BY <1>1, <2>1, <2>2, <2>7, TellInvRun
  <1>3. CASE Fail(r)
    <2> DEFINE x == [Fresh EXCEPT !.pc = "failed"]
    <2>1. run' = [run EXCEPT ![r] = x] /\ run[r].pc # "done"
      BY <1>3 DEF Fail, Goto
    <2>2. x.pc = "failed" /\ x.changes = {}
      BY DEF Fresh
    <2> HIDE DEF x
    <2>3. HasFound(x)
      BY <2>2, FS_EmptySet DEF HasFound
    <2> QED
      BY <1>1, <2>1, <2>2, <2>3, TellInvRun
  <1> QED
    BY <1>2, <1>3

(* The commit stores what the run has in hand, and only that.               *)
LEMMA TellInvCommit ==
  ASSUME PushInv, TellInv, NEW r \in Runs, Commit(r)
  PROVE  TellInv'
  <1>1. PICK x : x = [run[r] EXCEPT !.pc = "done"]
    OBVIOUS
  <1>2. /\ IsRecord(run[r]) /\ HasFound(run[r]) /\ run[r].pc = "dispatch"
        /\ HasStored(r, run[r]) /\ table' = table \union Stored(r) /\ bars' = bars
        /\ run' = [run EXCEPT ![r] = x]
    BY <1>1 DEF PushInv, TellInv, Commit, Goto, At
  <1>3. x.pc = "done" /\ x.changes = run[r].changes /\ x.rows = run[r].rows
    BY <1>1, <1>2 DEF IsRecord, RunFields
  <1>4. \A o \in Runs : run'[o] = IF o = r THEN x ELSE run[o]
    BY <1>2 DEF PushInv
  <1>5. \A n \in Stored(r) : n.id[1] = r
    BY DEF Stored
  <1>6. HasFound(run[r])' /\ HasStored(r, run[r])'
    <2>1. HasFound(x)
      BY <1>2, <1>3 DEF HasFound
    <2>2. HasFound(x)'
      BY <1>2, <2>1, FoundStays
    <2>3. {n \in table : n.id[1] = r} = {}
      BY <1>2 DEF HasStored
    <2>4. {n \in table' : n.id[1] = r} = Stored(r)
      BY <1>2, <1>5, <2>3
    <2>5. HasStored(r, x)'
      BY <1>3, <2>4 DEF HasStored, Stored
    <2>6. run'[r] = x
      BY <1>4
    <2> QED
      BY <2>2, <2>5, <2>6 DEF HasFound, HasStored
  <1>7. ASSUME NEW o \in Runs, o # r PROVE HasFound(run[o])' /\ HasStored(o, run[o])'
    <2>1. PICK y : y = run[o]
      OBVIOUS
    <2>2. HasFound(y) /\ HasStored(o, y)
      BY <2>1 DEF TellInv
    <2>3. {n \in table' : n.id[1] = o} = {n \in table : n.id[1] = o}
      BY <1>2, <1>5, <1>7
    <2>4. HasFound(y)' /\ HasStored(o, y)'
      BY <1>2, <2>2, <2>3, FoundStays DEF HasStored
    <2>5. run'[o] = y
      BY <1>4, <1>7, <2>1
    <2> QED
      BY <2>4, <2>5 DEF HasFound, HasStored
  <1> QED
    BY <1>6, <1>7 DEF TellInv

(* A device that changes hands is none of its concern.                      *)
LEMMA TellInvRegister ==
  ASSUME PushInv, TellInv, NEW d \in Devices, NEW u \in Users, Register(d, u)
  PROVE  TellInv'
  <1>1. /\ UNCHANGED <<bars, table>>
        /\ run' = [r \in Runs |-> [run[r] EXCEPT !.held = @ \union {<<d, u>>}]]
    BY DEF Register
  <1>2. ASSUME NEW r \in Runs PROVE HasFound(run[r])' /\ HasStored(r, run[r])'
    <2>1. PICK y : y = run'[r]
      OBVIOUS
    <2>2. /\ y.pc = run[r].pc /\ y.at = run[r].at /\ y.rows = run[r].rows
          /\ y.events = run[r].events /\ y.changes = run[r].changes
      BY <1>1, <2>1 DEF PushInv, IsRecord, RunFields
    <2>3. HasFound(y) /\ HasStored(r, y)
      BY <2>2 DEF TellInv, HasFound, HasStored
    <2>4. HasFound(y)' /\ HasStored(r, y)'
      BY <1>1, <2>3, FoundStays DEF HasStored
    <2> QED
      BY <2>1, <2>4 DEF HasFound, HasStored
  <1> QED
    BY <1>2 DEF TellInv

(* At the start nothing is found and nothing is stored.                     *)
LEMMA TellInvInit == Init => TellInv
  <1> SUFFICES ASSUME Init, NEW r \in Runs PROVE HasFound(run[r]) /\ HasStored(r, run[r])
    BY DEF TellInv
  <1>1. run[r] = Fresh /\ table = {}
    BY DEF Init
  <1>2. Fresh.pc = "idle" /\ Fresh.at = 1 /\ Fresh.events = <<>> /\ Fresh.changes = {}
    BY DEF Fresh
  <1> HIDE DEF Fresh
  <1> QED
    BY <1>1, <1>2, FS_EmptySet DEF HasFound, HasStored

(* Every step keeps it.                                                     *)
LEMMA TellInvStep == PushInv /\ TellInv /\ [Next]_vars => TellInv'
  <1> SUFFICES ASSUME PushInv, TellInv, [Next]_vars PROVE TellInv'
    OBVIOUS
  <1>1. ASSUME NEW r \in Runs, RunStep(r) \/ Fail(r) PROVE TellInv'
    BY <1>1, TellInvStart, TellInvVolatility, TellInvEarnings, TellInvMacro, TellInvPersist,
       TellInvDispatcher, TellInvCommit DEF RunStep
  <1>2. CASE \E d \in Devices, u \in Users : Register(d, u)
    BY <1>2, TellInvRegister
  <1>3. CASE UNCHANGED alertVars
    <2>1. UNCHANGED <<bars, run, table>>
      BY <1>3 DEF alertVars
    <2>2. ASSUME NEW r \in Runs PROVE HasFound(run[r])' /\ HasStored(r, run[r])'
      <3>1. PICK y : y = run[r]
        OBVIOUS
      <3>2. HasFound(y)' /\ HasStored(r, y)'
        BY <2>1, <3>1, FoundStays DEF TellInv, HasStored
      <3> QED
        BY <2>1, <3>1, <3>2 DEF HasFound, HasStored
    <2> QED
      BY <2>2 DEF TellInv
  <1>4. \/ \E t \in Tickets, u \in Users : Mint(t, u)
        \/ \E t \in Tickets : Expire(t) \/ \E s \in Sockets : Admit(s, t)
        \/ \E s \in Sockets : Subscribe(s) \/ Disconnect(s)
        \/ UNCHANGED vars
        => UNCHANGED alertVars
    BY DEF Mint, Expire, Admit, Subscribe, Disconnect, vars, alertVars
  <1> QED
    BY <1>1, <1>2, <1>3, <1>4 DEF Next

(* What is due when all is known is what Owed says.                         *)
LEMMA DueIsOwed ==
  ASSUME NEW r \in Runs, NEW a \in AlertSet
  PROVE  OwedNow(a, run[r].changes) = Owed(r, a)
  <1>1. DOMAIN Rows = 1 .. Len(Rows)
    BY AlertsAssumption
  <1>2. a.kind \in {"volatility", "earnings", "macro"}
    BY DEF AlertSet
  <1>3. CASE a.kind = "volatility"
    BY <1>1, <1>3 DEF OwedNow, DueBefore, Owed, Shaken
  <1>4. CASE a.kind = "earnings"
    BY <1>1, <1>4 DEF OwedNow, DueBefore, Owed, DueBy
  <1>5. CASE a.kind = "macro"
    BY <1>5 DEF OwedNow, Owed
  <1> QED
    BY <1>2, <1>3, <1>4, <1>5

(* What a run with these rows stores, and how many of its rows, or of what  *)
(* is stored, are about one thing.                                          *)
StoredOf(r, rows) ==
    {[id |-> <<r, i>>, alert |-> rows[i].alert, sent |-> rows[i].sent] : i \in DOMAIN rows}

InHand(rows, a) == Cardinality({i \in DOMAIN rows : rows[i].alert = a})

InTable(stored, a) == Cardinality({n \in stored : n.alert = a})

(* So many rows in hand, so many in the table.                              *)
LEMMA RowsAreStored ==
  ASSUME NEW r, NEW rows, NEW a, IsFiniteSet(DOMAIN rows)
  PROVE  InTable(StoredOf(r, rows), a) = InHand(rows, a)
  <1> DEFINE D == DOMAIN rows
             as == [i \in D |-> [id |-> <<r, i>>, alert |-> rows[i].alert, sent |-> rows[i].sent]]
             S == {i \in D : rows[i].alert = a}
             T == {n \in {as[i] : i \in D} : n.alert = a}
             f == [i \in S |-> as[i]]
  <1>1. \A i \in D : as[i].alert = rows[i].alert /\ as[i].id[2] = i
    OBVIOUS
  <1>2. IsFiniteSet(S)
    BY FS_Subset
  <1>3. StoredOf(r, rows) = {as[i] : i \in D}
    BY DEF StoredOf
  <1> HIDE DEF as, D
  <1>4. \A i \in S : as[i] \in T
    BY <1>1
  <1>5. ASSUME NEW n \in T PROVE \E i \in S : as[i] = n
    <2>1. PICK i \in D : n = as[i]
      OBVIOUS
    <2>2. n.alert = a
      OBVIOUS
    <2>3. i \in S
      BY <1>1, <2>1, <2>2
    <2> QED
      BY <2>1, <2>3
  <1>6. \A i, j \in S : as[i] = as[j] => i = j
    BY <1>1
  <1> HIDE DEF S, T
  <1>7. f \in [S -> T] /\ \A i \in S : f[i] = as[i]
    BY <1>4
  <1> HIDE DEF f
  <1>8. f \in Bijection(S, T)
    BY <1>5, <1>6, <1>7 DEF Bijection, Injection, Surjection, IsInjective
  <1>9. Cardinality(T) = Cardinality(S)
    BY <1>2, <1>8, FS_Bijection DEF ExistsBijection
  <1> QED
    BY <1>3, <1>9 DEF S, T, D, InTable, InHand

(* A run that ended has stored exactly what it owes each user, whichever    *)
(* pushes failed; one that failed has stored nothing.                       *)
THEOREM EveryHolderIsTold == Spec => []RunsTellEveryHolder
  <1>1. TellInv => RunsTellEveryHolder
    <2> SUFFICES ASSUME TellInv, NEW r \in Runs
                 PROVE  LET mine == {n \in table : n.id[1] = r}
                        IN  IF At(r, "done")
                            THEN \A a \in AlertSet :
                                     Cardinality({n \in mine : n.alert = a}) = Owed(r, a)
                            ELSE mine = {}
      BY DEF RunsTellEveryHolder
    <2>1. HasFound(run[r]) /\ HasStored(r, run[r])
      BY DEF TellInv
    <2>2. CASE run[r].pc = "done"
      <3> DEFINE rows == run[r].rows
      <3>1. {n \in table : n.id[1] = r} = StoredOf(r, rows)
        BY <2>1, <2>2 DEF HasStored, StoredOf
      <3>2. IsFiniteSet(DOMAIN rows)
        BY <2>1, <2>2 DEF HasFound
      <3>3. ASSUME NEW a \in AlertSet PROVE InTable(StoredOf(r, rows), a) = Owed(r, a)
        <4>1. InHand(rows, a) = OwedNow(a, run[r].changes)
          BY <2>1, <2>2 DEF HasFound, InHand
        <4>2. InTable(StoredOf(r, rows), a) = InHand(rows, a)
          BY <3>2, RowsAreStored
        <4> QED
          BY <4>1, <4>2, DueIsOwed
      <3> QED
        BY <2>2, <3>1, <3>3 DEF At, InTable
    <2>3. CASE run[r].pc # "done"
      BY <2>1, <2>3 DEF HasStored, At
    <2> QED
      BY <2>2, <2>3
  <1> QED
    BY <1>1, PushInvInit, PushInvStep, TellInvInit, TellInvStep, PTL DEF Spec

-----------------------------------------------------------------------------
(* The session-aware scheduler: theorems about Scheduler, for any           *)
(* exchanges, sessions, cadences, number of workers and backlog, whether or *)
(* not workers fail.                                                        *)

(* What a worker has in hand is a record; what it has left to do may be     *)
(* anything: nothing below rests on what plan() returns.                    *)
IsHand(h) ==
    /\ DOMAIN h = {"pc", "now", "todo"}
    /\ h = [x \in {"pc", "now", "todo"} |-> h[x]]

(* The inductive invariant: whatever has been sent was claimed, and so is   *)
(* what a worker is about to send, which nobody has sent and no other       *)
(* worker is about to send.                                                 *)
ClaimedOnce ==
    /\ sent \in [Keys -> Nat]
    /\ worker = [w \in Workers |-> worker[w]]
    /\ \A w \in Workers : IsHand(worker[w])
    /\ \A k \in Keys : sent[k] > 0 => k \in claims
    /\ \A w \in Workers : WorkerAt(w, "send") => Head(worker[w].todo) \in claims
    /\ \A w \in Workers, k \in Keys :
        WorkerAt(w, "send") /\ Head(worker[w].todo) = k => sent[k] = 0
    /\ \A v, w \in Workers :
        WorkerAt(v, "send") /\ WorkerAt(w, "send") /\ Head(worker[v].todo) = Head(worker[w].todo)
            => v = w

(* What a worker has in hand, after a change of one of its fields. *)
LEMMA HandChanges ==
  ASSUME NEW h, IsHand(h), NEW s, NEW t
  PROVE  /\ IsHand([h EXCEPT !.pc = s]) /\ [h EXCEPT !.pc = s].pc = s
         /\ [h EXCEPT !.pc = s].todo = h.todo
         /\ IsHand([h EXCEPT !.todo = t]) /\ [h EXCEPT !.todo = t].pc = h.pc
         /\ IsHand([h EXCEPT !.pc = s, !.todo = t])
         /\ [h EXCEPT !.pc = s, !.todo = t].pc = s
         /\ [h EXCEPT !.pc = s, !.todo = t].todo = t
  BY DEF IsHand

(* A worker that has nothing to do has something in hand that is well formed. *)
LEMMA IdleIsHand == IsHand(Idle) /\ Idle.pc = "idle"
  BY DEF IsHand, Idle

(* At the start nothing is claimed and nothing is sent. *)
LEMMA ClaimedOnceInit == InitScheduler => ClaimedOnce
  BY IdleIsHand DEF InitScheduler, ClaimedOnce, WorkerAt

(* Only these matter to it: a step that leaves what workers are about to    *)
(* send, the claims and the sends as they are keeps it.                     *)
LEMMA ClaimedOnceFrame ==
  ASSUME ClaimedOnce, UNCHANGED <<claims, sent>>,
         worker' = [w \in Workers |-> worker'[w]],
         \A w \in Workers : IsHand(worker'[w]),
         \A w \in Workers : WorkerAt(w, "send")' => WorkerAt(w, "send") /\ worker'[w] = worker[w]
  PROVE  ClaimedOnce'
  BY DEF ClaimedOnce, WorkerAt

(* One worker gets something else in hand, which is not a send.             *)
LEMMA NothingToSend ==
  ASSUME ClaimedOnce, UNCHANGED <<claims, sent>>, NEW v \in Workers, NEW h,
         IsHand(h), h.pc # "send", worker' = [worker EXCEPT ![v] = h]
  PROVE  ClaimedOnce'
  <1>1. worker' = [w \in Workers |-> worker'[w]]
    BY DEF ClaimedOnce
  <1>2. ASSUME NEW w \in Workers PROVE worker'[w] = IF w = v THEN h ELSE worker[w]
    BY DEF ClaimedOnce
  <1> QED BY <1>1, <1>2, ClaimedOnceFrame DEF ClaimedOnce, WorkerAt

(* Every step of a worker, every crash and every tick keeps what is sent claimed. *)
LEMMA ClaimedOnceStep == ClaimedOnce /\ [SchedulerNext]_schedulerVars => ClaimedOnce'
  <1> SUFFICES ASSUME ClaimedOnce, [SchedulerNext]_schedulerVars PROVE ClaimedOnce'
    OBVIOUS
  <1>1. CASE UNCHANGED <<claims, worker, sent>>
    BY <1>1 DEF ClaimedOnce, WorkerAt
  <1>2. ASSUME NEW v \in Workers, Take(v) PROVE ClaimedOnce'
    <2>1. CASE "scheduling.scheduler" \in Include
      <3> DEFINE h == [Idle EXCEPT !.pc = "plan", !.now = clock]
      <3>1. IsHand(h) /\ h.pc = "plan"
        BY DEF IsHand, Idle
      <3>2. worker' = [worker EXCEPT ![v] = h] /\ UNCHANGED <<claims, sent>>
        BY <1>2, <2>1 DEF Take
      <3> QED BY <3>1, <3>2, NothingToSend
    <2>2. CASE "scheduling.scheduler" \notin Include
      BY <1>2, <2>2, <1>1 DEF Take
    <2> QED BY <2>1, <2>2
  <1>3. ASSUME NEW v \in Workers, Plan(v) PROVE ClaimedOnce'
    <2> DEFINE h == [worker[v] EXCEPT !.pc = "claim", !.todo = Plans(worker[v].now, vetoed)]
    <2>1. IsHand(worker[v])
      BY DEF ClaimedOnce
    <2>2. IsHand(h) /\ h.pc = "claim"
      BY <2>1 DEF IsHand
    <2>3. worker' = [worker EXCEPT ![v] = h] /\ UNCHANGED <<claims, sent>>
      BY <1>3 DEF Plan
    <2> QED BY <2>2, <2>3, NothingToSend
  <1>4. ASSUME NEW v \in Workers, Claim(v) PROVE ClaimedOnce'
    <2> DEFINE todo == worker[v].todo
    <2>1. IsHand(worker[v]) /\ worker[v].pc = "claim"
      BY <1>4 DEF ClaimedOnce, Claim, WorkerAt
    <2>2. CASE todo = <<>> /\ worker' = [worker EXCEPT ![v] = Idle] /\ UNCHANGED claims
      BY <2>2, <1>4, IdleIsHand, NothingToSend DEF Claim
    <2>3. CASE worker' = [worker EXCEPT ![v].todo = Tail(@)] /\ UNCHANGED claims
      <3> DEFINE h == [worker[v] EXCEPT !.todo = Tail(todo)]
      <3>1. IsHand(h) /\ h.pc = "claim"
        BY <2>1 DEF IsHand
      <3>2. worker' = [worker EXCEPT ![v] = h] /\ UNCHANGED <<claims, sent>>
        BY <2>3, <1>4 DEF Claim
      <3> QED BY <3>1, <3>2, NothingToSend
    <2>4. CASE /\ Head(todo) \notin claims
               /\ claims' = claims \union {Head(todo)}
               /\ worker' = [worker EXCEPT ![v].pc = "send"]
      <3> DEFINE h == [worker[v] EXCEPT !.pc = "send"]
      <3>1. IsHand(h) /\ h.pc = "send" /\ h.todo = todo
        BY <2>1 DEF IsHand
      <3>2. /\ worker' = [w \in Workers |-> worker'[w]]
            /\ worker'[v] = h
            /\ \A w \in Workers \ {v} : worker'[w] = worker[w]
        BY <2>4 DEF ClaimedOnce
      <3>3. sent' = sent
        BY <1>4 DEF Claim
      <3>4. ASSUME NEW k \in Keys, Head(todo) = k PROVE sent[k] = 0
        BY <2>4, <3>4 DEF ClaimedOnce
      <3>5. ASSUME NEW w \in Workers, WorkerAt(w, "send"), w # v
            PROVE  Head(worker[w].todo) # Head(todo)
        BY <2>4, <3>5 DEF ClaimedOnce
      <3> HIDE DEF h
      <3> QED
        BY <2>4, <3>1, <3>2, <3>3, <3>4, <3>5 DEF ClaimedOnce, WorkerAt
    <2> QED BY <1>4, <2>2, <2>3, <2>4 DEF Claim
  <1>5. ASSUME NEW v \in Workers, Send(v) PROVE ClaimedOnce'
    <2> DEFINE k == Head(worker[v].todo)
               h == [worker[v] EXCEPT !.pc = "claim", !.todo = Tail(worker[v].todo)]
    <2>1. IsHand(worker[v]) /\ WorkerAt(v, "send")
      BY <1>5 DEF ClaimedOnce, Send
    <2>2. IsHand(h) /\ h.pc = "claim"
      BY <2>1 DEF IsHand
    <2>3. /\ worker' = [w \in Workers |-> worker'[w]]
          /\ worker'[v] = h
          /\ \A w \in Workers \ {v} : worker'[w] = worker[w]
      BY <1>5 DEF Send, ClaimedOnce
    <2>4. sent' \in [Keys -> Nat] /\ \A j \in Keys : j # k => sent'[j] = sent[j]
      <3>1. sent' = [sent EXCEPT ![k] = @ + 1] /\ sent \in [Keys -> Nat]
        BY <1>5 DEF Send, ClaimedOnce
      <3> HIDE DEF k
      <3>2. CASE k \in Keys
        BY <3>1, <3>2
      <3>3. CASE k \notin Keys
        BY <3>1, <3>3
      <3> QED BY <3>2, <3>3
    <2>5. k \in claims /\ claims' = claims
      BY <1>5, <2>1 DEF Send, ClaimedOnce
    <2>6. ASSUME NEW w \in Workers, WorkerAt(w, "send"), w # v
          PROVE  Head(worker[w].todo) # k
      BY <2>1, <2>6 DEF ClaimedOnce
    <2> HIDE DEF k, h
    <2> QED BY <2>2, <2>3, <2>4, <2>5, <2>6 DEF ClaimedOnce, WorkerAt
  <1>6. ASSUME NEW v \in Workers, WorkerFails(v) PROVE ClaimedOnce'
    BY <1>6, IdleIsHand, NothingToSend DEF WorkerFails
  <1> QED
    BY <1>1, <1>2, <1>3, <1>4, <1>5, <1>6
       DEF SchedulerNext, Run, Minute, Beat, DuplicateBeat, Veto,
           schedulerVars

(* "DST, duplicate beats and worker restarts can't double-fire the batch":  *)
(* one dedupe key is dispatched at most once, however many messages of a    *)
(* minute are published, whichever workers take them, however late, and     *)
(* wherever they die.                                                       *)
THEOREM DispatchedAtMostOnce == SchedulerSpec => []AtMostOnce
  <1> DEFINE Inv == ClaimedOnce /\ AtMostOnce
  <1>1. InitScheduler => Inv
    BY ClaimedOnceInit DEF InitScheduler, AtMostOnce
  <1>2. Inv /\ [SchedulerNext]_schedulerVars => Inv'
    <2> SUFFICES ASSUME Inv, [SchedulerNext]_schedulerVars PROVE AtMostOnce'
      BY ClaimedOnceStep
    <2>1. CASE UNCHANGED sent
      BY <2>1 DEF AtMostOnce
    <2>2. ASSUME NEW v \in Workers, Send(v) PROVE AtMostOnce'
      BY <2>2 DEF Send, AtMostOnce, ClaimedOnce
    <2> QED
      BY <2>1, <2>2
         DEF SchedulerNext, Run, Minute, Beat, DuplicateBeat, Veto,
             Take, Plan, Claim, WorkerFails, schedulerVars
  <1> QED BY <1>1, <1>2, PTL DEF SchedulerSpec

(* What may be dispatched at a minute: a batch only after its close.        *)
Due(t) == {k \in Keys : \A s \in Sessions : k = PostClose(s) => t >= s.close}

HandSet == [pc : {"idle", "plan", "claim", "send"}, now : Minutes, todo : Seq(Keys)]

(* Nobody plans for a minute to come, and what is planned is due.           *)
DueInv ==
    /\ SchedulerTypeOK
    /\ \A w \in Workers :
        /\ worker[w].now <= clock
        /\ worker[w].todo \in Seq(Due(clock))
        /\ WorkerAt(w, "send") => worker[w].todo # <<>>
    /\ BatchAfterClose

(* What one worker has in hand keeps the invariant.                         *)
HandIsDue(h, t) ==
    /\ h \in HandSet /\ h.now <= t /\ h.todo \in Seq(Due(t))
    /\ h.pc = "send" => h.todo # <<>>

(* A market has one session a day, which closes in the minute in which it   *)
(* has just closed: what plan() returns is due.                             *)
LEMMA PlansAreDue ==
  ASSUME SchedulerAssumption, NEW t \in Minutes, NEW closed
  PROVE  Plans(t, closed) \in Seq(Due(t))
  <1> DEFINE D == DOMAIN Exchanges
             lists == [i \in D |-> PlansFor(Exchanges[i], t, closed)]
  <1>1. PICK n \in Nat : D = 1 .. n
    BY DEF SchedulerAssumption
  <1>2. ASSUME NEW i \in D PROVE PlansFor(Exchanges[i], t, closed) \in Seq(Due(t))
    <2> DEFINE m == Exchanges[i]
               today == SessionOf(m, t) \ closed
               is(st) == \E s \in today : MarketState(s, t) = st
               minute(task, every) ==
                 IF is("open") /\ t % every = 0 THEN <<[task |-> task, mic |-> m, at |-> t]>>
                 ELSE <<>>
               close == IF is("just_closed")
                        THEN <<[task |-> "post_close", mic |-> m, at |-> t \div DayLength]>>
                    ELSE <<>>
    <2>1. m \in ToSet(Exchanges)
      BY DEF ToSet
    <2>2. \A task \in {"recalc", "sync"} : [task |-> task, mic |-> m, at |-> t] \in Due(t)
      BY <2>1 DEF Due, Keys, PostClose
    <2>3. \A task \in {"recalc", "sync"}, every \in Nat : minute(task, every) \in Seq(Due(t))
      <3> HIDE DEF m, is
      <3> QED
        BY <2>2
    <2>4. is("just_closed")
            => [task |-> "post_close", mic |-> m, at |-> t \div DayLength] \in Due(t)
      <3> SUFFICES ASSUME NEW s \in today, MarketState(s, t) = "just_closed"
                   PROVE  [task |-> "post_close", mic |-> m, at |-> t \div DayLength] \in Due(t)
        OBVIOUS
      <3>1. s \in Sessions /\ s.mic = m /\ s.date = t \div DayLength
        BY DEF SessionOf
      <3>2. t = s.close
        BY DEF MarketState
      <3>3. [task |-> "post_close", mic |-> m, at |-> t \div DayLength] \in Keys
        BY <3>1 DEF Keys
      <3>4. ASSUME NEW r \in Sessions,
                   [task |-> "post_close", mic |-> m, at |-> t \div DayLength] = PostClose(r)
            PROVE  t >= r.close
        <4>1. r.mic = s.mic /\ r.date = s.date
          BY <3>1, <3>4 DEF PostClose
        <4>2. r = s
          BY <4>1, <3>1 DEF SchedulerAssumption
        <4> QED
          BY <4>2, <3>1, <3>2 DEF SchedulerAssumption
      <3> HIDE DEF m
      <3> QED
        BY <3>3, <3>4 DEF Due
    <2>5. close \in Seq(Due(t))
      <3> HIDE DEF m, is
      <3> QED
        BY <2>4
    <2>6. PlansFor(m, t, closed) = minute("recalc", RecalcEvery) \o minute("sync", SyncEvery)
          \o close
      BY DEF PlansFor
    <2>7. RecalcEvery \in Nat /\ SyncEvery \in Nat
      BY DEF SchedulerAssumption
    <2>8. minute("recalc", RecalcEvery) \in Seq(Due(t)) /\ minute("sync", SyncEvery) \in Seq(Due(t))
      BY <2>3, <2>7
    <2> HIDE DEF minute, close, m
    <2> QED
      BY <2>5, <2>6, <2>8 DEF m
  <1>3. lists \in Seq(Seq(Due(t))) /\ DOMAIN lists = 1 .. n
    BY <1>1, <1>2
  <1>4. Plans(t, closed) = FlattenSeq(lists)
    BY DEF Plans
  <1> HIDE DEF lists
  <1> QED
    BY <1>3, <1>4, FlattenKeeps

(* What is due stays due.                                                   *)
LEMMA DueStays ==
  ASSUME NEW t \in Nat, NEW u \in Nat, t <= u,
         \A s \in Sessions : s.close \in Nat
  PROVE  Due(t) \subseteq Due(u)
  BY DEF Due

(* So does what a worker has in hand.                                       *)
LEMMA HandStaysDue ==
  ASSUME SchedulerAssumption, NEW t \in Nat, NEW u \in Nat, t <= u, NEW h, HandIsDue(h, t)
  PROVE  HandIsDue(h, u)
  <1>1. Due(t) \subseteq Due(u)
    BY DueStays DEF SchedulerAssumption
  <1>2. h.todo \in Seq(Due(u))
    BY <1>1 DEF HandIsDue
  <1>3. h.now <= u
    BY DEF HandIsDue, HandSet, Minutes
  <1> QED
    BY <1>2, <1>3 DEF HandIsDue

(* The invariant, worker by worker.                                         *)
LEMMA DueInvIs ==
  DueInv <=> /\ clock \in Minutes /\ beaten \in BOOLEAN /\ queue \in 0 .. Backlog
             /\ vetoed \subseteq Sessions /\ claims \subseteq Keys
             /\ worker \in [Workers -> HandSet]
             /\ sent \in [Keys -> Nat] /\ calm \in BOOLEAN
             /\ \A w \in Workers : HandIsDue(worker[w], clock)
             /\ BatchAfterClose
  BY DEF DueInv, SchedulerTypeOK, HandIsDue, HandSet, WorkerAt

(* One worker gets something else in hand, and a key may be claimed.        *)
LEMMA HandReplaced ==
  ASSUME SchedulerAssumption, DueInv, NEW v \in Workers, NEW h, HandIsDue(h, clock),
         worker' = [worker EXCEPT ![v] = h], claims' \subseteq Keys, queue' \in 0 .. Backlog,
         calm' \in BOOLEAN, UNCHANGED <<clock, beaten, vetoed, sent>>
  PROVE  DueInv'
  <1>1. h \in HandSet
    BY DEF HandIsDue
  <1>2. worker' \in [Workers -> HandSet]
    BY <1>1, DueInvIs
  <1>3. \A w \in Workers : HandIsDue(worker'[w], clock')
    BY <1>2, DueInvIs
  <1>4. BatchAfterClose'
    BY DEF BatchAfterClose, DueInv
  <1>5. clock' \in Minutes /\ beaten' \in BOOLEAN /\ vetoed' \subseteq Sessions
        /\ sent' \in [Keys -> Nat]
    BY DueInvIs
  <1> QED
    BY <1>2, <1>3, <1>4, <1>5 DEF DueInv, SchedulerTypeOK, HandIsDue, HandSet, WorkerAt

(* A worker with nothing to do, and one that has read the clock, plan       *)
(* nothing early.                                                           *)
LEMMA IdleIsDue ==
  ASSUME SchedulerAssumption, NEW t \in Minutes
  PROVE  HandIsDue(Idle, t) /\ HandIsDue([Idle EXCEPT !.pc = "plan", !.now = t], t)
  <1>1. <<>> \in Seq(Due(t)) /\ <<>> \in Seq(Keys) /\ 0 \in Minutes /\ 0 <= t
    BY DEF Minutes, SchedulerAssumption
  <1>2. HandIsDue(Idle, t)
    BY <1>1 DEF HandIsDue, HandSet, Idle
  <1>3. t <= t
    BY DEF Minutes
  <1>4. HandIsDue([Idle EXCEPT !.pc = "plan", !.now = t], t)
    BY <1>2, <1>3 DEF HandIsDue, HandSet
  <1> QED
    BY <1>2, <1>4

(* At the start nobody plans anything.                                      *)
LEMMA DueInvInit == SchedulerAssumption /\ InitScheduler => DueInv
  <1> SUFFICES ASSUME SchedulerAssumption, InitScheduler PROVE DueInv
    OBVIOUS
  <1>1. clock \in Minutes
    BY DEF InitScheduler, Minutes, SchedulerAssumption
  <1>2. HandIsDue(Idle, clock)
    BY <1>1, IdleIsDue
  <1>3. worker = [w \in Workers |-> Idle] /\ Idle \in HandSet
    BY <1>2 DEF InitScheduler, HandIsDue
  <1>4. sent \in [Keys -> Nat] /\ BatchAfterClose
    <2>1. sent = [k \in Keys |-> 0]
      BY DEF InitScheduler
    <2>2. \A s \in Sessions : PostClose(s) \in Keys
      BY DEF Keys, PostClose
    <2> QED
      BY <2>1, <2>2 DEF BatchAfterClose
  <1>5. worker \in [Workers -> HandSet] /\ \A w \in Workers : HandIsDue(worker[w], clock)
    BY <1>2, <1>3
  <1>6. queue \in 0 .. Backlog /\ vetoed \subseteq Sessions /\ claims \subseteq Keys
    BY DEF InitScheduler, SchedulerAssumption
  <1>7. beaten \in BOOLEAN /\ calm \in BOOLEAN
    BY Zenon DEF InitScheduler
  <1> QED
    BY <1>1, <1>4, <1>5, <1>6, <1>7, DueInvIs

(* A hand, after a change of some of its fields.                            *)
LEMMA HandMoves ==
  ASSUME NEW t, NEW h, HandIsDue(h, t), NEW l \in Seq(Due(t)), NEW p \in {"claim", "send"},
         p = "send" => l # <<>>
  PROVE  HandIsDue([h EXCEPT !.pc = p, !.todo = l], t)
  <1>1. l \in Seq(Keys)
    BY DEF Due
  <1> QED
    BY <1>1 DEF HandIsDue, HandSet

(* Every step of a worker, every tick and every minute keeps it.            *)
LEMMA DueInvStep == SchedulerAssumption /\ DueInv /\ [SchedulerNext]_schedulerVars => DueInv'
  <1> SUFFICES ASSUME SchedulerAssumption, DueInv, [SchedulerNext]_schedulerVars PROVE DueInv'
    OBVIOUS
  <1>0. /\ clock \in Minutes /\ clock \in Nat /\ worker \in [Workers -> HandSet]
        /\ \A w \in Workers : HandIsDue(worker[w], clock)
    BY DueInvIs DEF Minutes
  <1>w. ASSUME NEW v \in Workers
        PROVE  /\ worker[v] \in HandSet /\ worker[v].todo \in Seq(Due(clock))
               /\ worker[v].now \in Minutes /\ worker[v].now <= clock
               /\ worker[v].todo \in Seq(Keys)
    BY <1>0 DEF HandIsDue, HandSet
  <1>1. CASE Minute
    <2>1. clock' \in Nat /\ clock <= clock' /\ clock' \in Minutes
      BY <1>1, <1>0 DEF Minute, Minutes, SchedulerAssumption
    <2>2. \A w \in Workers : HandIsDue(worker'[w], clock')
      BY <1>1, <2>1, <1>0, HandStaysDue DEF Minute
    <2>3. BatchAfterClose'
      BY <1>1, <2>1, <1>0 DEF Minute, BatchAfterClose, DueInv, SchedulerAssumption
    <2> QED
      BY <1>1, <2>1, <2>2, <2>3 DEF Minute, DueInv, SchedulerTypeOK, HandIsDue, HandSet, WorkerAt
  <1>2. CASE Beat \/ DuplicateBeat
    <2>1. queue' \in 0 .. Backlog /\ beaten' \in BOOLEAN
          /\ UNCHANGED <<clock, vetoed, claims, worker, sent, calm>>
      <3>1. Backlog \in Nat /\ queue \in 0 .. Backlog /\ beaten \in BOOLEAN
        BY DEF SchedulerAssumption, DueInv, SchedulerTypeOK
      <3>2. queue' \in 0 .. Backlog
        BY <1>2, <3>1 DEF Beat, DuplicateBeat
      <3>3. beaten' \in BOOLEAN
        BY <1>2, <3>1, Zenon DEF Beat, DuplicateBeat
      <3> QED
        BY <1>2, <3>2, <3>3, Zenon DEF Beat, DuplicateBeat
    <2> QED
      BY <2>1 DEF DueInv, SchedulerTypeOK, BatchAfterClose, WorkerAt
  <1>3. CASE Veto
    <2>1. vetoed' \subseteq Sessions
          /\ UNCHANGED <<clock, beaten, queue, claims, worker, sent, calm>>
      BY <1>3 DEF Veto, DueInv, SchedulerTypeOK
    <2> QED
      BY <2>1 DEF DueInv, SchedulerTypeOK, BatchAfterClose, WorkerAt
  <1>4. ASSUME NEW v \in Workers, Take(v) PROVE DueInv'
    <2>1. queue' \in 0 .. Backlog /\ UNCHANGED <<clock, beaten, vetoed, claims, sent, calm>>
      BY <1>4 DEF Take, DueInv, SchedulerTypeOK, SchedulerAssumption
    <2>2. CASE "scheduling.scheduler" \in Include
      <3> DEFINE h == [Idle EXCEPT !.pc = "plan", !.now = clock]
      <3>1. HandIsDue(h, clock) /\ worker' = [worker EXCEPT ![v] = h]
        BY <1>4, <2>2, <1>0, IdleIsDue DEF Take
      <3>2. claims' \subseteq Keys /\ calm' \in BOOLEAN
        BY <2>1 DEF DueInv, SchedulerTypeOK
      <3> HIDE DEF h
      <3> QED
        BY <2>1, <3>1, <3>2, HandReplaced
    <2>3. CASE "scheduling.scheduler" \notin Include
      <3>1. worker' = worker
        BY <1>4, <2>3 DEF Take
      <3> QED
        BY <2>1, <3>1 DEF DueInv, SchedulerTypeOK, BatchAfterClose, WorkerAt
    <2> QED
      BY <2>2, <2>3
  <1>5. ASSUME NEW v \in Workers, Plan(v) PROVE DueInv'
    <2> DEFINE l == Plans(worker[v].now, vetoed)
               h == [worker[v] EXCEPT !.pc = "claim", !.todo = l]
    <2>1. l \in Seq(Due(clock))
      <3>1. l \in Seq(Due(worker[v].now))
        BY <1>w, PlansAreDue
      <3>2. Due(worker[v].now) \subseteq Due(clock)
        <4>1. worker[v].now \in Nat /\ worker[v].now <= clock
          BY <1>w DEF Minutes
        <4> QED
          BY <4>1, <1>0, DueStays DEF SchedulerAssumption
      <3> HIDE DEF l
      <3> QED
        BY <3>1, <3>2
    <2> HIDE DEF l
    <2>2. HandIsDue(h, clock)
      BY <1>0, <2>1, HandMoves
    <2>3. worker' = [worker EXCEPT ![v] = h]
          /\ UNCHANGED <<clock, beaten, queue, vetoed, claims, sent, calm>>
      BY <1>5 DEF Plan, l
    <2>4. claims' \subseteq Keys /\ calm' \in BOOLEAN /\ queue' \in 0 .. Backlog
      BY <2>3 DEF DueInv, SchedulerTypeOK
    <2> HIDE DEF h
    <2> QED
      BY <2>2, <2>3, <2>4, HandReplaced
  <1>6. ASSUME NEW v \in Workers, Claim(v) PROVE DueInv'
    <2> DEFINE l == worker[v].todo
    <2>0. UNCHANGED <<clock, beaten, vetoed, queue, sent, calm>>
          /\ queue' \in 0 .. Backlog /\ calm' \in BOOLEAN
      BY <1>6 DEF Claim, DueInv, SchedulerTypeOK
    <2>1. CASE worker' = [worker EXCEPT ![v] = Idle] /\ claims' = claims
      <3>1. claims' \subseteq Keys
        BY <2>1 DEF DueInv, SchedulerTypeOK
      <3> QED
        BY <2>0, <2>1, <3>1, <1>0, IdleIsDue, HandReplaced
    <2>2. CASE l # <<>> /\ worker' = [worker EXCEPT ![v].todo = Tail(@)] /\ claims' = claims
      <3> DEFINE h == [worker[v] EXCEPT !.pc = "claim", !.todo = Tail(l)]
      <3>1. HandIsDue(h, clock)
        <4>1. Tail(l) \in Seq(Due(clock))
          BY <2>2, <1>w
        <4> QED
          BY <4>1, <1>0, HandMoves
      <3>2. h = [worker[v] EXCEPT !.todo = Tail(l)]
        BY <1>w, <1>6 DEF Claim, WorkerAt, HandSet
      <3>3. worker' = [worker EXCEPT ![v] = h] /\ claims' \subseteq Keys
        BY <2>2, <3>2 DEF DueInv, SchedulerTypeOK
      <3> HIDE DEF h
      <3> QED
        BY <2>0, <3>1, <3>3, HandReplaced
    <2>3. CASE l # <<>> /\ claims' = claims \union {Head(l)}
               /\ worker' = [worker EXCEPT ![v].pc = "send"]
      <3> DEFINE h == [worker[v] EXCEPT !.pc = "send", !.todo = l]
      <3>1. HandIsDue(h, clock)
        BY <1>0, <1>w, <2>3, HandMoves
      <3>2. h = [worker[v] EXCEPT !.pc = "send"]
        BY <1>w DEF HandSet
      <3>3. worker' = [worker EXCEPT ![v] = h] /\ claims' \subseteq Keys
        <4>1. Head(l) \in Keys
          BY <2>3, <1>w
        <4> QED
          BY <2>3, <3>2, <4>1 DEF DueInv, SchedulerTypeOK
      <3> HIDE DEF h
      <3> QED
        BY <2>0, <3>1, <3>3, HandReplaced
    <2> QED
      BY <1>6, <2>1, <2>2, <2>3 DEF Claim
  <1>7. ASSUME NEW v \in Workers, Send(v) PROVE DueInv'
    <2> DEFINE l == worker[v].todo
               h == [worker[v] EXCEPT !.pc = "claim", !.todo = Tail(l)]
    <2>0. UNCHANGED <<clock, beaten, vetoed, claims, queue, calm>>
          /\ sent' = [sent EXCEPT ![Head(l)] = @ + 1] /\ worker' = [worker EXCEPT ![v] = h]
      BY <1>7 DEF Send
    <2>1. l # <<>> /\ l \in Seq(Due(clock))
      BY <1>7, <1>0 DEF Send, WorkerAt, HandIsDue
    <2>2. Tail(l) \in Seq(Due(clock)) /\ Head(l) \in Due(clock)
      BY <2>1
    <2>3. HandIsDue(h, clock)
      BY <2>2, <1>0, HandMoves
    <2>4. sent' \in [Keys -> Nat] /\ \A k \in Keys : k # Head(l) => sent'[k] = sent[k]
      BY <2>0, <2>2 DEF Due, DueInv, SchedulerTypeOK
    <2>5. BatchAfterClose'
      <3> SUFFICES ASSUME NEW s \in Sessions, sent'[PostClose(s)] > 0 PROVE clock >= s.close
        BY <2>0 DEF BatchAfterClose, PostClose
      <3>1. PostClose(s) \in Keys
        BY DEF Keys, PostClose
      <3>2. CASE PostClose(s) = Head(l)
        BY <3>2, <2>2 DEF Due
      <3>3. CASE PostClose(s) # Head(l)
        BY <3>3, <3>1, <2>4 DEF DueInv, BatchAfterClose
      <3> QED
        BY <3>2, <3>3
    <2>6. worker' \in [Workers -> HandSet] /\ \A w \in Workers : HandIsDue(worker'[w], clock')
      <3>1. h \in HandSet
        BY <2>3 DEF HandIsDue
      <3> HIDE DEF h
      <3> QED
        BY <3>1, <2>0, <2>3, <1>0
    <2> HIDE DEF h, l
    <2> QED
      BY <2>0, <2>4, <2>5, <2>6 DEF DueInv, SchedulerTypeOK, HandIsDue, HandSet, WorkerAt
  <1>8. ASSUME NEW v \in Workers, WorkerFails(v) PROVE DueInv'
    <2>1. worker' = [worker EXCEPT ![v] = Idle] /\ calm' = FALSE
          /\ UNCHANGED <<clock, beaten, queue, vetoed, claims, sent>>
      BY <1>8 DEF WorkerFails
    <2>2. claims' \subseteq Keys /\ queue' \in 0 .. Backlog
      BY <2>1 DEF DueInv, SchedulerTypeOK
    <2> QED
      BY <2>1, <2>2, <1>0, IdleIsDue, HandReplaced
  <1>9. CASE UNCHANGED schedulerVars
    BY <1>9 DEF schedulerVars, DueInv, SchedulerTypeOK, BatchAfterClose, WorkerAt
  <1> QED
    BY <1>1, <1>2, <1>3, <1>4, <1>5, <1>6, <1>7, <1>8, <1>9 DEF SchedulerNext, Run

(* The post-close batch of a session is never dispatched before its close,  *)
(* however late workers take, plan, claim and send, and wherever they fail; *)
(* and the scheduler's types.                                               *)
THEOREM BatchWaitsForClose == ASSUME SchedulerAssumption
                              PROVE  SchedulerSpec => [](SchedulerTypeOK /\ BatchAfterClose)
  <1>1. InitScheduler => DueInv
    BY DueInvInit
  <1>2. DueInv /\ [SchedulerNext]_schedulerVars => DueInv'
    BY DueInvStep
  <1>3. DueInv => SchedulerTypeOK /\ BatchAfterClose
    BY DEF DueInv
  <1> QED
    BY <1>1, <1>2, <1>3, PTL DEF SchedulerSpec
=============================================================================
