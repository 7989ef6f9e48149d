--------------------------------- MODULE Staff ---------------------------------
(***************************************************************************)
(* Attendance, leave and payroll.  Clocking in and out read and then write *)
(* without a lock; a leave decision and a payroll approval claim their row *)
(* in a transaction.  A payroll run is computed from two reads and created *)
(* under a unique index on branch and month.                               *)
(***************************************************************************)
EXTENDS Service

CONSTANTS
  Employees,
  Sites,      \* branches
  Home,       \* the branch of an employee at the start
  Salaried,   \* the full-time employees
  Records,    \* AttendanceRecord ids
  Runs,       \* PayrollRun ids, all of one month
  Leaves      \* LeaveRequest ids, all pending at the start

ASSUME StaffAssumption == /\ Home \in [Employees -> Sites]
                           /\ Salaried \subseteq Employees
                           /\ Records \subseteq Nat \ {0}
                           /\ IsFiniteSet(Records) /\ IsFiniteSet(Salaried)

Employee(u) == <<"employee", u>>
Record(r) == <<"record", r>>
Run(n) == <<"run", n>>
Leave(l) == <<"leave", l>>
StaffRows == {Employee(u) : u \in Employees} \union {Record(r) : r \in Records}
               \union {Run(n) : n \in Runs} \union {Leave(l) : l \in Leaves}

NoRecord == [st |-> "none"]
NoRun == [st |-> "none", slips |-> {}]
StaffInitial(r) == CASE r[1] = "employee" -> Home[r[2]]
                     [] r[1] = "record" -> NoRecord
                     [] r[1] = "run" -> NoRun
                     [] OTHER -> "PENDING"

RecordsOf(u, st) == {r \in Records : /\ committed[Record(r)].st = st
                                     /\ committed[Record(r)].who = u}

\* clockIn finds no open record ...
ClockIn(t) == \E u \in Employees, b \in Sites :
  /\ RecordsOf(u, "open") = {}
  /\ Begin(t, "clockin", "create", Employee(u), [site |-> b])

Recorded(r) == db[Record(r)].st # "none"

\* ... and creates one; a second one raced with it.
CreateRecord(t) == Doing(t, "clockin", "create") /\ \E r \in FreshId(Records, Recorded) :
  LET u == tx[t].row[2]
  IN /\ Put(Record(r), [st |-> "open", who |-> u, site |-> tx[t].read.site])
     /\ raced' = IF \E v \in Txns \ {t} : tx[v].op = "clockin" /\ tx[v].row = tx[t].row
                   THEN raced \union {Employee(u)} ELSE raced
     /\ Finish(t)
     /\ UNCHANGED log

\* clockOut finds an open record (any) ...
ClockOut(t) == \E u \in Employees : \E r \in RecordsOf(u, "open") :
  Begin(t, "clockout", "close", Record(r), [was |-> committed[Record(r)]])

\* ... and closes it by id.
CloseRecord(t) ==
  LET row == tx[t].row
  IN /\ Doing(t, "clockout", "close")
     /\ Put(row, [db[row] EXCEPT !.st = "closed"])
     /\ Races(row, tx[t].read.was)
     /\ Finish(t)
     /\ UNCHANGED log

\* updateUser: an employee moves to another branch.
Move == \E u \in Employees, b \in Sites :
  /\ Single
  /\ committed[Employee(u)] # b
  /\ Put(Employee(u), b)
  /\ Logged({[kind |-> "moved", key |-> u, amount |-> 0]})
  /\ UNCHANGED raced

\* processLeaveRequest claims the pending request.
DecideLeave == \E l \in Leaves, decision \in {"APPROVED", "REJECTED"} :
  /\ Single
  /\ committed[Leave(l)] = "PENDING"
  /\ Put(Leave(l), decision)
  /\ Logged({[kind |-> "leave", key |-> l, amount |-> 0]})
  /\ UNCHANGED raced

-------------------------------------------------------------------------------
(* Payroll of the month.                                                   *)

RunsOf(rows, b) == {n \in Runs : rows[Run(n)].st # "none" /\ rows[Run(n)].site = b}

\* generatePayrollRun: no run of the branch yet; the closed records of the branch ...
Generate(t) == \E b \in Sites :
  /\ RunsOf(committed, b) = {}
  /\ Begin(t, "generate", "salaried", NoTxn,
           [site |-> b,
            slips |-> {[who |-> committed[Record(r)].who, for |-> r] :
                         r \in {x \in Records : /\ committed[Record(x)].st = "closed"
                                                /\ committed[Record(x)].site = b}}])

\* What a payslip pays for: a record, or the base salary of the month.
Base == 0
Salary(u) == [who |-> u, for |-> Base]

\* ... the full-time employees: those of the branch, and those with a record there ...
ReadSalaried(t) ==
  LET b == tx[t].read.site
      worked == {s.who : s \in tx[t].read.slips}
      paid == {u \in Salaried : committed[Employee(u)] = b \/ u \in worked}
  IN /\ Doing(t, "generate", "salaried")
     /\ Continue(t, "create", [tx[t].read EXCEPT !.slips = @ \union {Salary(u) : u \in paid}], {})
     /\ UNCHANGED <<db, lock, raced>>

Ran(n) == db[Run(n)].st # "none"

\* ... and the run, unless the branch has one by now (P2002).
CreateRun(t) == \E n \in FreshId(Runs, Ran) :
  /\ Doing(t, "generate", "create")
  /\ IF RunsOf(db, tx[t].read.site) # {} THEN UNCHANGED <<db, committed, lock>>
     ELSE Put(Run(n), [st |-> "DRAFT", site |-> tx[t].read.site, slips |-> tx[t].read.slips])
  /\ Finish(t)
  /\ UNCHANGED <<log, raced>>

\* approvePayrollRun, in its transaction: the draft ...
ReadRun(t) == \E n \in Runs :
  /\ committed[Run(n)].st = "DRAFT"
  /\ Begin(t, "payout", "claim", Run(n), [slips |-> committed[Run(n)].slips])

Payout(n, slips) == IF slips = {} THEN {}
                    ELSE {[kind |-> "payroll", key |-> n, amount |-> Cardinality(slips)]}

\* Mutant: the run is approved by id.
ApproveRun(t) ==
  LET row == tx[t].row
  IN /\ Doing(t, "payout", "claim")
     /\ MayWrite(t, row)
     /\ Write(t, row, [db[row] EXCEPT !.st = "APPROVED"])
     /\ Continue(t, "commit", tx[t].read, Payout(row[2], tx[t].read.slips))
     /\ UNCHANGED raced

\* ... is claimed; the event carries the total of the payslips.
ClaimRun(t) ==
  LET row == tx[t].row
  IN /\ Doing(t, "payout", "claim")
     /\ MayWrite(t, row)
     /\ \/ db[row].st # "DRAFT" /\ Throw(t)
        \/ /\ db[row].st = "DRAFT"
           /\ Write(t, row, [db[row] EXCEPT !.st = "APPROVED"])
           /\ Continue(t, "commit", tx[t].read, Payout(row[2], tx[t].read.slips))
           /\ UNCHANGED raced

StaffStep(t) == \/ ClockIn(t) \/ CreateRecord(t) \/ ClockOut(t) \/ CloseRecord(t)
                \/ Generate(t) \/ ReadSalaried(t) \/ CreateRun(t)
                \/ ReadRun(t) \/ ClaimRun(t)

StaffNext == Move \/ DecideLeave \/ \E t \in Txns : StaffStep(t)

-------------------------------------------------------------------------------
(* Properties.                                                             *)

Slips == [who : Employees, for : Records \union {Base}]

StaffTypeOK(v) ==
  /\ \A u \in Employees : v[Employee(u)] \in Sites
  /\ \A r \in Records : v[Record(r)] \in {NoRecord} \union
       [st : {"open", "closed"}, who : Employees, site : Sites]
  /\ \A n \in Runs : v[Run(n)] \in {NoRun} \union
       [st : {"DRAFT", "APPROVED"}, site : Sites, slips : SUBSET Slips]
  /\ \A l \in Leaves : v[Leave(l)] \in {"PENDING", "APPROVED", "REJECTED"}

PaidOut == {n \in Runs : committed[Run(n)].st = "APPROVED"}
AtHomeOnly(u) == /\ Entries("moved", u) = {}
                 /\ \A r \in Records : committed[Record(r)].st = "none"
                      \/ committed[Record(r)].who # u
                      \/ committed[Record(r)].site = Home[u]

\* Nobody is clocked in twice, unless two clock-ins crossed; a record is paid by
\* one run at most, a salary too as long as its employee worked at one branch; the
\* payroll account is told once, and all of it.
PaidOnce == desk = "staff" =>
  /\ \A u \in Employees : Employee(u) \notin raced => Cardinality(RecordsOf(u, "open")) <= 1
  /\ \A m, n \in PaidOut :
       \A s \in committed[Run(m)].slips \intersect committed[Run(n)].slips :
         m = n \/ (s.for = Base /\ ~AtHomeOnly(s.who))
  /\ \A n \in Runs :
       TotalOf(Entries("payroll", n)) =
         IF n \in PaidOut THEN Cardinality(committed[Run(n)].slips) ELSE 0
===============================================================================
