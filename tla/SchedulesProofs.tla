--------------------------- MODULE SchedulesProofs ---------------------------
(***************************************************************************)
(* Proofs about Schedules: types, and what survives any interleaving of    *)
(* requests with a tick that works from an older copy of the table.        *)
(***************************************************************************)
EXTENDS Schedules, WellFoundedInduction, TLAPS

-----------------------------------------------------------------------------
(* The computation of the next fire. *)

LEMMA LeastInstant ==
    ASSUME NEW S \in SUBSET Nat, S # {}
    PROVE  Earliest(S) \in S /\ \A j \in S : Earliest(S) <= j
<1>. DEFINE R == OpToRel(<, Nat)
<1>1. IsWellFoundedOn(R, Nat)
  BY NatLessThanWellFounded
<1>2. PICK m \in S : \A n \in S : ~ (<<n, m>> \in R)
  BY <1>1, WFMin
<1>3. \A n \in S : ~ (n < m)
  BY <1>2 DEF OpToRel
<1>4. \A n \in S : m <= n
  BY <1>3
<1>. QED BY <1>4 DEF Earliest

\* What the API stores in a new or edited row is an instant.
LEMMA AdvanceNextType ==
    ASSUME NEW p \in Plan, NEW i \in 0 .. Horizon
    PROVE  AdvanceNext(p, i) \in Nat
<1>1. CASE p \in Interval
  BY <1>1, SchedulesAssumption DEF AdvanceNext
<1>2. CASE p \notin Interval
  <2>. DEFINE S == {j \in Naive[p] : i < j}
  <2>1. S \in SUBSET Nat /\ S # {}
    BY SchedulesAssumption
  <2>2. Earliest(S) \in S
    BY <2>1, LeastInstant
  <2>. QED BY <1>2, <2>1, <2>2 DEF AdvanceNext
<1>. QED BY <1>1, <1>2

\* What the tick stores follows the plan, or stays where nothing is left.
LEMMA NextFireFollows ==
    ASSUME NEW p \in Plan, NEW i \in Nat
    PROVE  /\ NextFire(p, i) \in Nat
           /\ Exhausted(p, i) => NextFire(p, i) = i
           /\ ~Exhausted(p, i) => Follows(p, i, NextFire(p, i))
<1>0. Window \in Nat /\ Calendar[p] \in SUBSET Nat
  BY SchedulesAssumption
<1>1. CASE p \in Interval
  BY <1>1, SchedulesAssumption DEF NextFire, Follows, Exhausted
<1>2. CASE p \notin Interval /\ Candidates(p, i) = {}
  <2>1. Exhausted(p, i)
    BY <1>0, <1>2 DEF Exhausted, Candidates
  <2>. QED BY <1>2, <2>1 DEF NextFire, ComputeFails
<1>3. CASE p \notin Interval /\ Candidates(p, i) # {}
  <2>1. Candidates(p, i) \in SUBSET Nat
    BY <1>0 DEF Candidates
  <2>2. /\ Earliest(Candidates(p, i)) \in Candidates(p, i)
        /\ \A j \in Candidates(p, i) : Earliest(Candidates(p, i)) <= j
    BY <1>3, <2>1, LeastInstant
  <2>3. NextFire(p, i) = Earliest(Candidates(p, i))
    BY <1>3 DEF NextFire, ComputeFails
  <2>4. ~Exhausted(p, i)
    BY <1>0, <1>3 DEF Exhausted, Candidates
  <2>5. ASSUME NEW k \in Calendar[p], i < k
        PROVE  NextFire(p, i) <= k
    <3>1. CASE k <= i + Window
      BY <2>2, <2>3, <2>5, <3>1 DEF Candidates
    <3>2. CASE i + Window < k
      BY <1>0, <2>2, <2>3, <3>2 DEF Candidates
    <3>. QED BY <1>0, <3>1, <3>2
  <2>. QED BY <1>0, <1>3, <2>2, <2>3, <2>4, <2>5 DEF Follows, Candidates
<1>. QED BY <1>1, <1>2, <1>3

-----------------------------------------------------------------------------
(* Types. *)

\* A request that is going to write says what.
Complete(q) ==
    /\ q.pc = "asked" => q.on \in Schedule
    /\ q.pc = "asked" /\ q.op \in {"create", "update"} => q.plan \in Plan

\* The tick has a row in hand exactly while it inserts a run, and copies only
\* while it works; a copy that is not empty has a plan.
TickSettled ==
    /\ pc = "insert" <=> hand # Nowhere
    /\ pc = "sleep" => \A s \in Schedule : copy[s] = NoCopy
    /\ \A s \in Schedule : copy[s] # NoCopy => copy[s].plan \in Plan

TypeInv == TypeOK /\ (\A r \in Request : Complete(request[r])) /\ TickSettled

\* The rows at the start: absent, or created just before.
LEMMA FirstRows ==
    ASSUME Init, NEW s \in Schedule
    PROVE  \/ row[s] = Absent
           \/ row[s] \in RowType /\ row[s].is = "there"
<1>1. CASE First[s] = NoPlan
  BY <1>1 DEF Init
<1>2. CASE First[s] # NoPlan
  <2>1. First[s] \in Plan /\ 0 \in 0 .. Horizon
    BY <1>2, SchedulesAssumption
  <2>2. AdvanceNext(First[s], 0) \in Nat
    BY <2>1, AdvanceNextType
  <2>3. row[s] = NewRow(First[s], TRUE, AdvanceNext(First[s], 0))
    BY <1>2 DEF Init
  <2>. QED BY <2>1, <2>2, <2>3 DEF NewRow, RowType
<1>. QED BY <1>1, <1>2

LEMMA TypeInit == Init => TypeInv
<1>. SUFFICES ASSUME Init
              PROVE  TypeInv
  OBVIOUS
<1>1. row \in [Schedule -> RowType \cup {Absent, Deleted}]
  <2>1. \A s \in Schedule : row[s] \in RowType \cup {Absent, Deleted}
    BY FirstRows
  <2>. QED BY <2>1 DEF Init
<1>2. /\ request \in [Request -> RequestType]
      /\ \A r \in Request : Complete(request[r])
  <2>1. NewRequest \in RequestType /\ Complete(NewRequest)
    BY DEF NewRequest, RequestType, Complete
  <2>. QED BY <2>1 DEF Init
<1>3. /\ copy \in [Schedule -> CopyType \cup {NoCopy}]
      /\ \A s \in Schedule : copy[s] = NoCopy /\ copy[s].next <= clock
  BY DEF Init, NoCopy
<1>4. hist \in [Schedule -> HistType]
  BY DEF Init, HistType, NoHist
<1>5. /\ scripts \subseteq Script /\ pc = "sleep" /\ hand = Nowhere
      /\ clock \in 0 .. Horizon /\ faults \in 0 .. MaxFaults
  BY SchedulesAssumption DEF Init
<1>. QED BY <1>1, <1>2, <1>3, <1>4, <1>5 DEF TypeInv, TypeOK, TickSettled

LEMMA ThereIsRow ==
    ASSUME TypeInv, NEW s \in Schedule, There(s)
    PROVE  row[s] \in RowType
BY DEF TypeInv, TypeOK, There, Absent, Deleted

\* Steps that read and write the table, the tick aside.
LEMMA RequestTypes ==
    ASSUME TypeInv, NEW r \in Request, RequestStep(r)
    PROVE  TypeInv'
<1>. DEFINE q == request[r]
<1>. USE DEF TypeInv
<1>1. ASSUME NEW op \in {"create", "update", "set", "delete"}, NEW s \in Schedule,
             NEW p \in Plan \cup {NoPlan}, NEW on \in BOOLEAN,
             op \in {"create", "update"} => p \in Plan, Ask(r, op, s, p, on)
      PROVE  TypeInv'
  <2>. DEFINE new == [pc |-> "asked", op |-> op, on |-> s, plan |-> p, enabled |-> on,
                      next |-> IF p = NoPlan THEN 0 ELSE AdvanceNext(p, clock)]
  <2>1. new \in RequestType
    BY AdvanceNextType DEF RequestType, TypeOK
  <2>2. Complete(new)
    BY <1>1 DEF Complete
  <2>3. request' = [request EXCEPT ![r] = new]
    BY <1>1 DEF Ask
  <2>4. request' \in [Request -> RequestType] /\ \A u \in Request : Complete(request'[u])
    BY <2>1, <2>2, <2>3 DEF TypeOK
  <2>. QED BY <1>1, <2>4 DEF Ask, tickVars, TypeOK, TickSettled, Complete
<1>2. ASSUME \E s \in Schedule :
                \/ \E p \in Plan, on \in BOOLEAN :
                      AskCreate(r, s, p, on) \/ AskUpdate(r, s, p, on)
                \/ \E on \in BOOLEAN : AskSet(r, s, on)
                \/ AskDelete(r, s)
      PROVE  TypeInv'
  BY <1>1, <1>2 DEF AskCreate, AskUpdate, AskSet, AskDelete
<1>3. ASSUME NEW op, Writes(r, op)
      PROVE  /\ request' \in [Request -> RequestType]
             /\ \A u \in Request : Complete(request'[u])
             /\ UNCHANGED <<scripts, pc, copy, hand, clock, faults>>
             /\ q.on \in Schedule
             /\ op \in {"create", "update"} => q.plan \in Plan
  <2>. DEFINE used == [NewRequest EXCEPT !.pc = "done"]
  <2>1. used \in RequestType /\ Complete(used)
    BY DEF NewRequest, RequestType, Complete
  <2>. QED BY <1>3, <2>1 DEF Writes, tickVars, TypeOK, Complete
<1>4. ASSUME NEW op, Writes(r, op),
             row' \in [Schedule -> RowType \cup {Absent, Deleted}],
             hist' \in [Schedule -> HistType]
      PROVE  TypeInv'
  BY <1>3, <1>4 DEF TypeOK, TickSettled, Complete
<1>5. q \in RequestType
  BY DEF TypeOK
<1>6. CASE Insert(r)
  <2>. DEFINE new == NewRow(q.plan, q.enabled, q.next)
  <2>1. new \in RowType
    BY <1>3, <1>5, <1>6 DEF Insert, NewRow, RowType, RequestType
  <2>. QED BY <1>4, <1>6, <2>1 DEF Insert, TypeOK
<1>7. CASE Update(r)
  <2>. DEFINE new == NewRow(q.plan, q.enabled, q.next)
  <2>1. new \in RowType
    BY <1>3, <1>5, <1>7 DEF Update, NewRow, RowType, RequestType
  <2>2. hist' \in [Schedule -> HistType]
    <3>. DEFINE h == hist[q.on]
                fresh == [taken |-> 0, last |-> 0, edited |-> TRUE,
                          late |-> IF q.enabled THEN 0 ELSE h.late]
    <3>1. h \in HistType
      BY <1>3, <1>7 DEF Update, TypeOK
    <3>2. fresh \in HistType
      BY <3>1 DEF HistType
    <3>3. hist' = [hist EXCEPT ![q.on] = fresh]
      BY <1>7 DEF Update
    <3>. QED BY <3>2, <3>3 DEF TypeOK
  <2>. QED BY <1>4, <1>7, <2>1, <2>2 DEF Update, TypeOK
<1>8. CASE SetEnabled(r)
  <2>1. row[q.on] \in RowType
    BY <1>3, <1>8, ThereIsRow DEF SetEnabled
  <2>2. row' \in [Schedule -> RowType \cup {Absent, Deleted}]
    BY <1>5, <1>8, <2>1 DEF SetEnabled, TypeOK, RowType, RequestType
  <2>3. hist' \in [Schedule -> HistType]
    <3>. DEFINE h == hist[q.on]
                l == IF q.enabled THEN 0 ELSE h.late
    <3>1. h \in HistType /\ l \in 0 .. 2
      BY <1>3, <1>8 DEF SetEnabled, TypeOK, HistType
    <3>2. [h EXCEPT !.late = l] \in HistType
      BY <3>1 DEF HistType
    <3>3. hist' = [hist EXCEPT ![q.on] = [h EXCEPT !.late = l]]
      BY <1>8 DEF SetEnabled
    <3>. QED BY <3>2, <3>3 DEF TypeOK
  <2>. QED BY <1>4, <1>8, <2>2, <2>3 DEF SetEnabled
<1>9. CASE Remove(r) \/ WritesNothing(r)
  BY <1>4, <1>9 DEF Remove, WritesNothing, TypeOK
<1>. QED BY <1>2, <1>6, <1>7, <1>8, <1>9 DEF RequestStep

LEMMA AdvanceTypes ==
    ASSUME TypeInv, NEW s \in Schedule, AdvanceCursor(s)
    PROVE  TypeInv'
<1>. DEFINE c == copy[s]
<1>1. c.plan \in Plan /\ c.next \in Nat /\ c \in CopyType
  BY DEF TypeInv, TypeOK, TickSettled, AdvanceCursor, CopyType, NoCopy
<1>2. row' \in [Schedule -> RowType \cup {Absent, Deleted}]
  <2>1. NextFire(c.plan, c.next) \in Nat
    BY <1>1, NextFireFollows
  <2>2. There(s) => row[s] \in RowType
    BY ThereIsRow
  <2>3. There(s) => [row[s] EXCEPT !.next = NextFire(c.plan, c.next)] \in RowType
    BY <2>1, <2>2 DEF RowType
  <2>. QED BY <2>3 DEF AdvanceCursor, TypeInv, TypeOK
<1>3. hist' \in [Schedule -> HistType]
  <2>1. UpTo2(hist[s].taken) \in 0 .. 2
    BY DEF UpTo2, TypeInv, TypeOK, HistType
  <2>. QED BY <1>1, <2>1 DEF AdvanceCursor, TypeInv, TypeOK, HistType
<1>4. copy' = [copy EXCEPT ![s] = NoCopy] /\ NoCopy.next = 0
  BY DEF AdvanceCursor, NoCopy
<1>. QED BY <1>2, <1>3, <1>4, SchedulesAssumption
         DEF AdvanceCursor, TypeInv, TypeOK, TickSettled, Complete

LEMMA TickTypes ==
    ASSUME TypeInv, TickStep \/ TickFails
    PROVE  TypeInv'
<1>. USE DEF TypeInv
<1>1. CASE ListDue
  <2>. DEFINE S == {s \in Schedule : Due(s)}
              next == [s \in Schedule |-> IF s \in S THEN [plan |-> row[s].plan, next |-> row[s].next] ELSE NoCopy]
  <2>1. \A s \in S : row[s] \in RowType /\ row[s].next <= clock
    <3>1. \A s \in S : There(s) /\ row[s].next <= clock
      BY DEF Due, On
    <3>. QED BY <3>1, ThereIsRow
  <2>2. \A s \in Schedule :
            /\ next[s] \in CopyType \cup {NoCopy}
            /\ next[s].next <= clock
            /\ next[s] # NoCopy => next[s].plan \in Plan
    <3>. SUFFICES ASSUME NEW s \in Schedule
                  PROVE  /\ next[s] \in CopyType \cup {NoCopy}
                         /\ next[s].next <= clock
                         /\ next[s] # NoCopy => next[s].plan \in Plan
      OBVIOUS
    <3>1. CASE s \in S
      <4>1. next[s] = [plan |-> row[s].plan, next |-> row[s].next]
        BY <3>1
      <4>2. row[s].plan \in Plan /\ row[s].next \in Nat /\ row[s].next <= clock
        BY <2>1, <3>1 DEF RowType
      <4>. QED BY <4>1, <4>2 DEF CopyType
    <3>2. CASE s \notin S
      BY <3>2, SchedulesAssumption DEF NoCopy, TypeOK
    <3>. QED BY <3>1, <3>2
  <2>3. copy' = next /\ pc = "sleep" /\ pc' = "loop"
        /\ UNCHANGED <<row, scripts, request, hand, clock, faults, hist>>
    BY <1>1 DEF ListDue, Listed
  <2>4. copy' \in [Schedule -> CopyType \cup {NoCopy}]
    BY <2>2, <2>3
  <2>. QED BY <2>2, <2>3, <2>4 DEF TypeOK, TickSettled, Complete
<1>2. CASE StopTick /\ UNCHANGED <<row, scripts, request, clock, hist>> /\ faults' \in 0 .. MaxFaults
  <2>1. NoCopy.next = 0
    BY DEF NoCopy
  <2>. QED BY <1>2, <2>1 DEF StopTick, TypeOK, TickSettled, Complete
<1>3. CASE InsertRun
  <2>1. hand \in Schedule
    BY <1>3 DEF InsertRun, TypeOK, TickSettled
  <2>2. UpTo2(hist[hand].late) \in 0 .. 2
    BY <2>1 DEF UpTo2, TypeOK, HistType
  <2>3. hist' \in [Schedule -> HistType]
    BY <1>3, <2>1, <2>2 DEF InsertRun, TypeOK, HistType
  <2>. QED BY <1>3, <2>3 DEF InsertRun, TypeOK, TickSettled, Complete
<1>4. CASE TickFails
  <2>1. faults' \in 0 .. MaxFaults
    BY <1>4, SchedulesAssumption DEF TickFails, TypeOK
  <2>. QED BY <1>2, <1>4, <2>1 DEF TickFails
<1>5. CASE EndTick \/ \E s \in Schedule : AdvanceRaises(s)
  <2>1. StopTick /\ UNCHANGED <<row, scripts, request, clock, faults, hist>>
    BY <1>5 DEF EndTick, AdvanceRaises
  <2>. QED BY <1>2, <2>1 DEF TypeOK
<1>. QED BY <1>1, <1>3, <1>4, <1>5, AdvanceTypes DEF TickStep

LEMMA TypeStep == TypeInv /\ [Next]_vars => TypeInv'
<1>. SUFFICES ASSUME TypeInv, [Next]_vars
              PROVE  TypeInv'
  OBVIOUS
<1>1. CASE ClockMoves
  BY <1>1, SchedulesAssumption DEF ClockMoves, tickVars, TypeInv, TypeOK, TickSettled, Complete, CopyType, NoCopy
<1>2. CASE \E sc \in Script : DeleteScript(sc)
  BY <1>2 DEF DeleteScript, tickVars, TypeInv, TypeOK, TickSettled, Complete
<1>3. CASE UNCHANGED vars
  BY <1>3 DEF vars, tickVars, TypeInv, TypeOK, TickSettled, Complete
<1>. QED BY <1>1, <1>2, <1>3, TickTypes, RequestTypes DEF Next

\* Every variable keeps its type; a copy the tick works from was due.
THEOREM ScheduleTypes == Spec => []TypeOK
BY TypeInit, TypeStep, PTL DEF Spec, TypeInv

-----------------------------------------------------------------------------
(* A schedule that is switched off. *)

InTick(s) == copy[s] # NoCopy \/ hand = s

\* A schedule that is not there yet has no past.  One that the tick holds has
\* not fired since it was switched off, and the tick holds it only once.
Unborn(s) == row[s] = Absent => ~InTick(s) /\ hist[s].late = 0 /\ hist[s].taken = 0

LateInv ==
    \A s \in Schedule :
        /\ Unborn(s)
        /\ hand = s => copy[s] = NoCopy
        /\ On(s) \/ InTick(s) => hist[s].late = 0
        /\ hist[s].late \in 0 .. 1

\* A step that touches neither what the tick holds nor what it did, and
\* switches no schedule on, keeps the invariant.
LEMMA LateKept ==
    ASSUME LateInv, UNCHANGED <<copy, hand, hist>>,
           \A s \in Schedule : On(s)' => On(s),
           \A s \in Schedule : row'[s] = Absent => row[s] = Absent
    PROVE  LateInv'
BY DEF LateInv, Unborn, InTick

\* A request that switches o on or off forgets its late runs if it is on.
LEMMA SwitchedLate ==
    ASSUME LateInv, NEW o \in Schedule, NEW e \in BOOLEAN,
           UNCHANGED <<scripts, copy, hand>>,
           \A s \in Schedule : s # o => row'[s] = row[s] /\ hist'[s] = hist[s],
           row'[o].is = "there", row'[o].enabled = e,
           hist'[o].late = IF e THEN 0 ELSE hist[o].late
    PROVE  LateInv'
<1>1. row'[o] # Absent
  BY DEF Absent
<1>2. On(o)' => e
  BY DEF On
<1>3. ASSUME NEW s \in Schedule, s # o
      PROVE  On(s)' <=> On(s)
  BY <1>3 DEF On, There
<1>. QED BY <1>1, <1>2, <1>3 DEF LateInv, Unborn, InTick

LEMMA LateRequest ==
    ASSUME TypeInv, LateInv, NEW r \in Request, RequestStep(r)
    PROVE  LateInv'
<1>. DEFINE q == request[r]
<1>1. ASSUME UNCHANGED <<row, scripts, copy, hand, hist>>
      PROVE  LateInv'
  BY <1>1 DEF LateInv, Unborn, InTick, On, There
<1>2. ASSUME NEW op, Writes(r, op)
      PROVE  q.on \in Schedule /\ UNCHANGED <<scripts, copy, hand>>
  BY <1>2 DEF Writes, tickVars, TypeInv, Complete
<1>3. CASE Insert(r)
  <2>1. /\ q.on \in Schedule
        /\ row[q.on] = Absent
        /\ UNCHANGED <<scripts, copy, hand, hist>>
        /\ \A s \in Schedule : s # q.on => row'[s] = row[s]
        /\ row'[q.on].is = "there"
    BY <1>2, <1>3 DEF Insert, NewRow, TypeInv, TypeOK
  <2>2. row'[q.on] # Absent
    BY <2>1 DEF Absent
  <2>. QED BY <2>1, <2>2 DEF LateInv, Unborn, InTick, On, There
<1>4. CASE Update(r)
  <2>1. PICK o \in Schedule, e \in BOOLEAN : o = q.on /\ e = q.enabled
    BY <1>2, <1>4 DEF Update, TypeInv, TypeOK, RequestType
  <2>2. /\ UNCHANGED <<scripts, copy, hand>>
        /\ \A s \in Schedule : s # o => row'[s] = row[s] /\ hist'[s] = hist[s]
        /\ row'[o].is = "there"
        /\ row'[o].enabled = e
        /\ hist'[o].late = IF e THEN 0 ELSE hist[o].late
    BY <1>2, <1>4, <2>1 DEF Update, NewRow, TypeInv, TypeOK
  <2>. QED BY <2>2, SwitchedLate
<1>5. CASE SetEnabled(r)
  <2>1. PICK o \in Schedule, e \in BOOLEAN : o = q.on /\ e = q.enabled
    BY <1>2, <1>5 DEF SetEnabled, TypeInv, TypeOK, RequestType
  <2>2. /\ UNCHANGED <<scripts, copy, hand>>
        /\ row[o] \in RowType
        /\ hist[o] \in HistType
    BY <1>2, <1>5, <2>1, ThereIsRow DEF SetEnabled, TypeInv, TypeOK
  <2>3. /\ \A s \in Schedule : s # o => row'[s] = row[s] /\ hist'[s] = hist[s]
        /\ row'[o] = [row[o] EXCEPT !.enabled = e]
        /\ hist'[o] = [hist[o] EXCEPT !.late = IF e THEN 0 ELSE @]
    BY <1>5, <2>1, <2>2 DEF SetEnabled, TypeInv, TypeOK
  <2>4. row'[o].is = "there" /\ row'[o].enabled = e
    BY <2>2, <2>3 DEF RowType
  <2>5. hist'[o].late = IF e THEN 0 ELSE hist[o].late
    BY <2>2, <2>3 DEF HistType
  <2>. QED BY <2>2, <2>3, <2>4, <2>5, SwitchedLate
<1>6. CASE Remove(r)
  <2>1. /\ q.on \in Schedule
        /\ UNCHANGED <<scripts, copy, hand, hist>>
        /\ \A s \in Schedule : s # q.on => row'[s] = row[s]
        /\ row'[q.on] = Deleted
    BY <1>2, <1>6 DEF Remove, TypeInv, TypeOK
  <2>2. row'[q.on] # Absent /\ row'[q.on].is # "there"
    BY <2>1 DEF Absent, Deleted
  <2>3. \A s \in Schedule : On(s)' => On(s)
    BY <2>1, <2>2 DEF On, There
  <2>. QED BY <2>1, <2>2, <2>3, LateKept
<1>7. CASE WritesNothing(r)
  BY <1>1, <1>2, <1>7 DEF WritesNothing
<1>. QED BY <1>1, <1>3, <1>4, <1>5, <1>6, <1>7
         DEF RequestStep, AskCreate, AskUpdate, AskSet, AskDelete, Ask, tickVars

\* Taking a due row in hand.
LEMMA AdvanceChanges ==
    ASSUME TypeInv, NEW s \in Schedule, AdvanceCursor(s)
    PROVE  /\ copy' = [copy EXCEPT ![s] = NoCopy]
           /\ hand' = s
           /\ \A u \in Schedule :
                 /\ (row'[u] = Absent) <=> (row[u] = Absent)
                 /\ There(u)' <=> There(u)
                 /\ On(u)' <=> On(u)
                 /\ row'[u].plan = row[u].plan
                 /\ hist'[u].late = hist[u].late
                 /\ hist'[u].edited = hist[u].edited
                 /\ u # s => row'[u] = row[u] /\ hist'[u] = hist[u]
           /\ There(s) => row'[s].next = NextFire(copy[s].plan, copy[s].next)
           /\ hist'[s].taken = UpTo2(hist[s].taken)
           /\ hist'[s].last = copy[s].next
<1>1. /\ copy' = [copy EXCEPT ![s] = NoCopy] /\ hand' = s
      /\ scripts' = scripts
      /\ row' = IF There(s) THEN [row EXCEPT ![s].next = NextFire(copy[s].plan, copy[s].next)]
                ELSE row
      /\ hist' = [hist EXCEPT ![s].taken = UpTo2(@), ![s].last = copy[s].next]
  BY DEF AdvanceCursor
<1>2. \A u \in Schedule : hist[u] \in HistType
  BY DEF TypeInv, TypeOK
<1>3. /\ hist'[s].taken = UpTo2(hist[s].taken)
      /\ hist'[s].last = copy[s].next
      /\ hist'[s].late = hist[s].late
      /\ hist'[s].edited = hist[s].edited
      /\ \A u \in Schedule : u # s => hist'[u] = hist[u]
  BY <1>1, <1>2 DEF HistType, TypeInv, TypeOK
<1>4. CASE ~There(s)
  BY <1>1, <1>3, <1>4 DEF There, On
<1>5. CASE There(s)
  <2>1. row[s] \in RowType
    BY <1>5, ThereIsRow
  <2>2. /\ row'[s] = [row[s] EXCEPT !.next = NextFire(copy[s].plan, copy[s].next)]
        /\ \A u \in Schedule : u # s => row'[u] = row[u]
    BY <1>1, <1>5 DEF TypeInv, TypeOK
  <2>3. /\ row'[s].is = row[s].is /\ row'[s].plan = row[s].plan
        /\ row'[s].enabled = row[s].enabled
        /\ row'[s].next = NextFire(copy[s].plan, copy[s].next)
    BY <2>1, <2>2 DEF RowType
  <2>4. row[s] # Absent /\ row'[s] # Absent
    BY <1>5, <2>3 DEF There, Absent
  <2>. QED BY <1>1, <1>3, <1>5, <2>2, <2>3, <2>4 DEF There, On
<1>. QED BY <1>4, <1>5

LEMMA LateTick ==
    ASSUME TypeInv, LateInv, TickStep \/ TickFails
    PROVE  LateInv'
<1>1. CASE ListDue
  <2>1. /\ \A s \in Schedule : ~ Due(s) => copy'[s] = NoCopy
        /\ hand = Nowhere /\ UNCHANGED <<row, scripts, hand, hist>>
    BY <1>1 DEF ListDue, Listed, TypeInv, TickSettled
  <2>2. \A s \in Schedule : Due(s) => On(s) /\ row[s] # Absent
    BY DEF Due, On, There, Absent
  <2>. QED BY <2>1, <2>2, SchedulesAssumption DEF LateInv, Unborn, InTick, On, There
<1>2. ASSUME NEW s \in Schedule, AdvanceCursor(s)
      PROVE  LateInv'
  <2>1. copy[s] # NoCopy /\ hand = Nowhere
    BY <1>2, SchedulesAssumption DEF AdvanceCursor, TypeInv, TickSettled
  <2>2. row[s] # Absent
    BY <2>1 DEF LateInv, Unborn, InTick
  <2>3. \A u \in Schedule : copy'[u] = IF u = s THEN NoCopy ELSE copy[u]
    BY <1>2, AdvanceChanges DEF TypeInv, TypeOK
  <2>4. hist[s].late = 0
    BY <2>1 DEF LateInv, InTick
  <2>. QED BY <1>2, <2>1, <2>2, <2>3, <2>4, AdvanceChanges DEF LateInv, Unborn, InTick
<1>3. CASE InsertRun
  <2>1. PICK o \in Schedule : o = hand
    BY <1>3 DEF InsertRun, TypeInv, TypeOK, TickSettled
  <2>2. UNCHANGED <<row, scripts, copy>> /\ hand' = Nowhere
    BY <1>3 DEF InsertRun
  <2>3. hist[o].late = 0 /\ copy[o] = NoCopy /\ row[o] # Absent
    BY <2>1 DEF LateInv, Unborn, InTick
  <2>4. hist[o] \in HistType
    BY DEF TypeInv, TypeOK
  <2>5. /\ \A u \in Schedule : u # o => hist'[u] = hist[u]
        /\ hist'[o].late = IF On(o) THEN 0 ELSE 1
    BY <1>3, <2>1, <2>3, <2>4 DEF InsertRun, UpTo2, TypeInv, TypeOK, HistType
  <2>6. \A u \in Schedule : On(u)' <=> On(u)
    BY <2>2 DEF On, There
  <2>. QED BY <2>1, <2>2, <2>3, <2>5, <2>6, SchedulesAssumption DEF LateInv, Unborn, InTick
<1>4. ASSUME StopTick, UNCHANGED <<row, scripts, hist>>
      PROVE  LateInv'
  <2>1. \A s \in Schedule : copy'[s] = NoCopy /\ hand' # s
    BY <1>4, SchedulesAssumption DEF StopTick
  <2>. QED BY <1>4, <2>1 DEF LateInv, Unborn, InTick, On, There
<1>5. ASSUME NEW s \in Schedule, AdvanceRaises(s)
      PROVE  LateInv'
  BY <1>4, <1>5 DEF AdvanceRaises
<1>6. CASE EndTick \/ TickFails
  BY <1>4, <1>6 DEF EndTick, TickFails
<1>. QED BY <1>1, <1>2, <1>3, <1>5, <1>6 DEF TickStep

LEMMA LateStep == TypeInv /\ LateInv /\ [Next]_vars => LateInv'
<1>. SUFFICES ASSUME TypeInv, LateInv, [Next]_vars
              PROVE  LateInv'
  OBVIOUS
<1>1. CASE ClockMoves \/ UNCHANGED vars \/ \E sc \in Script : DeleteScript(sc)
  <2>1. UNCHANGED <<row, copy, hand, hist>> /\ scripts' \subseteq scripts
    BY <1>1 DEF ClockMoves, DeleteScript, vars, tickVars
  <2>. QED BY <2>1, LateKept DEF On, There
<1>. QED BY <1>1, LateRequest, LateTick DEF Next

LEMMA LateInit == Init => LateInv
<1>. SUFFICES ASSUME Init
              PROVE  LateInv
  OBVIOUS
<1>1. ASSUME NEW s \in Schedule
      PROVE  ~InTick(s) /\ hist[s].late = 0 /\ hist[s].taken = 0
  <2>1. copy[s] = NoCopy /\ hand # s /\ hist[s] = NoHist
    BY SchedulesAssumption DEF Init
  <2>. QED BY <2>1 DEF InTick, NoHist
<1>2. \A s \in Schedule : hist[s].late \in 0 .. 1
  <2>1. 0 \in 0 .. 1
    OBVIOUS
  <2>. QED BY <1>1, <2>1, Zenon
<1>. QED BY <1>1, <1>2, Zenon DEF LateInv, Unborn, InTick

\* A schedule that was disabled or deleted, or whose script was deleted,
\* fires at most once more, for any number of schedules and requests.
THEOREM FiresOnceLate == Spec => []LateOnce
<1>1. LateInv => LateOnce
  <2>1. \A n \in 0 .. 1 : n <= 1
    OBVIOUS
  <2>. QED BY <2>1, Zenon DEF LateInv, LateOnce
<1>. QED BY <1>1, LateInit, TypeInit, TypeStep, LateStep, PTL DEF Spec

-----------------------------------------------------------------------------
(* A schedule that is edited. *)

\* The tick's copy and the cursor belong to the plan in the row: the copy from
\* the first fire after the plan was written over, the cursor from the second.
FromRow(s) == copy[s].plan = row[s].plan /\ copy[s].next = row[s].next

PlanInv ==
    \A s \in Schedule :
        There(s) =>
            /\ /\ copy[s] # NoCopy
               /\ hist[s].edited => hist[s].taken >= 1
               => FromRow(s)
            /\ hist[s].taken >= (IF hist[s].edited THEN 2 ELSE 1) =>
                  row[s].next = NextFire(row[s].plan, hist[s].last)

\* A step that leaves alone the plans, the cursors, the copies and what was
\* taken of all schedules that remain keeps the invariant.
LEMMA PlanKept ==
    ASSUME PlanInv,
           \A s \in Schedule : There(s)' =>
               /\ There(s)
               /\ row'[s].plan = row[s].plan
               /\ row'[s].next = row[s].next
               /\ copy'[s] \in {copy[s], NoCopy}
               /\ hist'[s].taken = hist[s].taken
               /\ hist'[s].last = hist[s].last
               /\ hist'[s].edited = hist[s].edited
    PROVE  PlanInv'
BY DEF PlanInv, FromRow

LEMMA PlanRequest ==
    ASSUME TypeInv, LateInv, PlanInv, NEW r \in Request, RequestStep(r)
    PROVE  PlanInv'
<1>. DEFINE q == request[r]
<1>1. ASSUME UNCHANGED <<row, copy, hist>>
      PROVE  PlanInv'
  BY <1>1 DEF PlanInv, FromRow, There
<1>2. ASSUME NEW op, Writes(r, op)
      PROVE  q.on \in Schedule /\ UNCHANGED copy
  BY <1>2 DEF Writes, tickVars, TypeInv, Complete
<1>3. CASE Insert(r)
  <2>1. PICK o \in Schedule : o = q.on
    BY <1>2, <1>3 DEF Insert
  <2>2. /\ row[o] = Absent
        /\ UNCHANGED <<copy, hist>>
        /\ \A s \in Schedule : s # o => row'[s] = row[s]
    BY <1>2, <1>3, <2>1 DEF Insert, TypeInv, TypeOK
  <2>3. copy[o] = NoCopy /\ hist[o].taken = 0
    BY <2>2 DEF LateInv, Unborn, InTick
  <2>. QED BY <2>2, <2>3 DEF PlanInv, FromRow, There
<1>4. CASE Update(r)
  <2>1. PICK o \in Schedule : o = q.on
    BY <1>2, <1>4 DEF Update
  <2>2. /\ UNCHANGED copy
        /\ \A s \in Schedule : s # o => row'[s] = row[s] /\ hist'[s] = hist[s]
        /\ hist'[o].taken = 0 /\ hist'[o].edited
    BY <1>2, <1>4, <2>1 DEF Update, TypeInv, TypeOK
  <2>. QED BY <2>2 DEF PlanInv, FromRow, There
<1>5. CASE SetEnabled(r)
  <2>1. PICK o \in Schedule, e \in BOOLEAN : o = q.on /\ e = q.enabled
    BY <1>2, <1>5 DEF SetEnabled, TypeInv, TypeOK, RequestType
  <2>2. There(o) /\ row[o] \in RowType /\ hist[o] \in HistType /\ UNCHANGED copy
    BY <1>2, <1>5, <2>1, ThereIsRow DEF SetEnabled, TypeInv, TypeOK
  <2>3. /\ \A s \in Schedule : s # o => row'[s] = row[s] /\ hist'[s] = hist[s]
        /\ row'[o] = [row[o] EXCEPT !.enabled = e]
        /\ hist'[o] = [hist[o] EXCEPT !.late = IF e THEN 0 ELSE @]
    BY <1>5, <2>1, <2>2 DEF SetEnabled, TypeInv, TypeOK
  <2>4. row'[o].plan = row[o].plan /\ row'[o].next = row[o].next
    BY <2>2, <2>3 DEF RowType
  <2>5. /\ hist'[o].taken = hist[o].taken /\ hist'[o].last = hist[o].last
        /\ hist'[o].edited = hist[o].edited
    BY <2>2, <2>3 DEF HistType
  <2>. QED BY <2>2, <2>3, <2>4, <2>5, PlanKept DEF There
<1>6. CASE Remove(r)
  <2>1. /\ UNCHANGED <<copy, hist>>
        /\ \A s \in Schedule : row'[s] \in {row[s], Deleted}
    BY <1>2, <1>6 DEF Remove, TypeInv, TypeOK
  <2>. QED BY <2>1, PlanKept DEF There, Deleted
<1>7. CASE WritesNothing(r)
  BY <1>1, <1>2, <1>7 DEF WritesNothing
<1>. QED BY <1>1, <1>3, <1>4, <1>5, <1>6, <1>7
         DEF RequestStep, AskCreate, AskUpdate, AskSet, AskDelete, Ask, tickVars

LEMMA PlanTick ==
    ASSUME TypeInv, PlanInv, TickStep \/ TickFails
    PROVE  PlanInv'
<1>1. CASE ListDue
  <2>1. /\ UNCHANGED <<row, hist>>
        /\ \A s \in Schedule : copy'[s] = IF Due(s)
              THEN [plan |-> row[s].plan, next |-> row[s].next] ELSE NoCopy
    BY <1>1 DEF ListDue, Listed
  <2>2. ASSUME NEW s \in Schedule, copy'[s] # NoCopy
        PROVE  copy'[s].plan = row[s].plan /\ copy'[s].next = row[s].next
    <3>1. copy'[s] = [plan |-> row[s].plan, next |-> row[s].next]
      BY <2>1, <2>2
    <3>. QED BY <3>1
  <2>. QED BY <2>1, <2>2 DEF PlanInv, FromRow, There
<1>2. ASSUME NEW s \in Schedule, AdvanceCursor(s)
      PROVE  PlanInv'
  <2>1. \A u \in Schedule : copy'[u] = IF u = s THEN NoCopy ELSE copy[u]
    BY <1>2, AdvanceChanges DEF TypeInv, TypeOK
  <2>2. ASSUME NEW u \in Schedule, u # s, There(u)
        PROVE  /\ copy'[u] = copy[u]
               /\ row'[u] = row[u]
               /\ hist'[u] = hist[u]
    BY <1>2, <2>1, <2>2, AdvanceChanges
  <2>3. ASSUME There(s), hist'[s].taken >= (IF hist'[s].edited THEN 2 ELSE 1)
        PROVE  row'[s].next = NextFire(row'[s].plan, hist'[s].last)
    <3>1. hist[s] \in HistType /\ copy[s] # NoCopy
      BY <1>2 DEF AdvanceCursor, TypeInv, TypeOK
    <3>2. hist[s].edited => hist[s].taken >= 1
      BY <1>2, <2>3, <3>1, AdvanceChanges DEF UpTo2, HistType
    <3>3. FromRow(s)
      BY <2>3, <3>1, <3>2 DEF PlanInv
    <3>. QED BY <1>2, <2>3, <3>3, AdvanceChanges DEF FromRow
  <2>4. \A u \in Schedule : There(u)' => There(u)
    BY <1>2, AdvanceChanges
  <2>. QED BY <2>1, <2>2, <2>3, <2>4 DEF PlanInv, FromRow
<1>3. CASE InsertRun
  <2>1. PICK o \in Schedule : o = hand
    BY <1>3 DEF InsertRun, TypeInv, TypeOK, TickSettled
  <2>2. UNCHANGED <<row, copy>>
    BY <1>3 DEF InsertRun
  <2>3. hist[o] \in HistType
    BY DEF TypeInv, TypeOK
  <2>4. \A u \in Schedule :
            /\ hist'[u].taken = hist[u].taken
            /\ hist'[u].last = hist[u].last
            /\ hist'[u].edited = hist[u].edited
    BY <1>3, <2>1, <2>3 DEF InsertRun, TypeInv, TypeOK, HistType
  <2>. QED BY <2>2, <2>4, PlanKept DEF There
<1>4. ASSUME StopTick, UNCHANGED <<row, hist>>
      PROVE  PlanInv'
  <2>1. \A s \in Schedule : copy'[s] = NoCopy
    BY <1>4 DEF StopTick
  <2>. QED BY <1>4, <2>1, PlanKept DEF There
<1>5. ASSUME NEW s \in Schedule, AdvanceRaises(s)
      PROVE  PlanInv'
  BY <1>4, <1>5 DEF AdvanceRaises
<1>6. CASE EndTick \/ TickFails
  BY <1>4, <1>6 DEF EndTick, TickFails
<1>. QED BY <1>1, <1>2, <1>3, <1>5, <1>6 DEF TickStep

LEMMA PlanStep == TypeInv /\ LateInv /\ PlanInv /\ [Next]_vars => PlanInv'
<1>. SUFFICES ASSUME TypeInv, LateInv, PlanInv, [Next]_vars
              PROVE  PlanInv'
  OBVIOUS
<1>1. CASE ClockMoves \/ UNCHANGED vars \/ \E sc \in Script : DeleteScript(sc)
  <2>1. UNCHANGED <<row, copy, hist>>
    BY <1>1 DEF ClockMoves, DeleteScript, vars, tickVars
  <2>. QED BY <2>1, PlanKept DEF There
<1>. QED BY <1>1, PlanRequest, PlanTick DEF Next

\* Edits heal, for any number of schedules, requests and instants: from the
\* second fire of a new row, and from the third after its plan was written
\* over, every fire is the next of the plan, unless the plan is Exhausted: then
\* the fire before is taken again.
THEOREM EditsHeal == Spec => FiresFollowPlan
<1>. DEFINE Kept == \A s \in Schedule :
                /\ hand # s /\ hand' = s
                /\ There(s)
                /\ hist[s].taken >= IF hist[s].edited THEN 2 ELSE 1
                => IF Exhausted(row[s].plan, hist[s].last)
                   THEN hist'[s].last = hist[s].last
                   ELSE Follows(row[s].plan, hist[s].last, hist'[s].last)
<1>1. Init => PlanInv
  <2>. SUFFICES ASSUME Init, NEW s \in Schedule
                PROVE  /\ copy[s] = NoCopy
                       /\ hist[s].taken = 0 /\ ~hist[s].edited
    BY DEF PlanInv
  <2>. QED BY DEF Init, NoHist
<1>2. TypeInv /\ PlanInv /\ [Next]_vars => Kept
  <2>. SUFFICES ASSUME TypeInv, PlanInv, [Next]_vars, NEW s \in Schedule,
                       hand # s, hand' = s, There(s),
                       hist[s].taken >= IF hist[s].edited THEN 2 ELSE 1
                PROVE  /\ Exhausted(row[s].plan, hist[s].last)
                             => hist'[s].last = hist[s].last
                       /\ ~Exhausted(row[s].plan, hist[s].last)
                             => Follows(row[s].plan, hist[s].last, hist'[s].last)
    OBVIOUS
  <2>1. AdvanceCursor(s)
    <3>1. hand' # hand /\ hand' # Nowhere
      BY SchedulesAssumption
    <3>2. \A r \in Request : ~RequestStep(r)
      BY <3>1 DEF RequestStep, AskCreate, AskUpdate, AskSet, AskDelete, Ask, Insert, Update,
                  SetEnabled, Remove, WritesNothing, Writes, tickVars
    <3>. QED BY <3>1, <3>2
             DEF Next, TickStep, TickFails, ClockMoves, DeleteScript, ListDue, Listed,
                 AdvanceCursor, AdvanceRaises, InsertRun, EndTick, StopTick, vars, tickVars
  <2>2. hist[s] \in HistType /\ row[s] \in RowType /\ copy[s] # NoCopy
    BY <2>1, ThereIsRow DEF AdvanceCursor, TypeInv, TypeOK
  <2>3. copy[s].next = NextFire(row[s].plan, hist[s].last)
    BY <2>2 DEF PlanInv, FromRow, HistType
  <2>4. /\ Exhausted(row[s].plan, hist[s].last)
              => NextFire(row[s].plan, hist[s].last) = hist[s].last
        /\ ~Exhausted(row[s].plan, hist[s].last)
              => Follows(row[s].plan, hist[s].last, NextFire(row[s].plan, hist[s].last))
    BY <2>2, NextFireFollows DEF RowType, HistType
  <2>. QED BY <2>1, <2>3, <2>4, AdvanceChanges
<1>. QED BY <1>1, <1>2, LateInit, TypeInit, TypeStep, LateStep, PlanStep, PTL
         DEF Spec, FiresFollowPlan
=============================================================================
