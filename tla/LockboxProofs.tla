--------------------------- MODULE LockboxProofs ---------------------------
(***************************************************************************)
(* Theorems about LockboxLedger, for every set of holders, plans and data. *)
(*                                                                         *)
(* The inductive invariant adds to the properties the runs check the one   *)
(* fact they rest on: the seals of any held or persisted experiment are    *)
(* empty or one binding that seal() made, and extends them to the          *)
(* temporary file, whatever saves met there.  What a save puts into the    *)
(* file, and what it may replace there, need invariants of their own:      *)
(* OwnSaves and KnownInv.                                                  *)
(***************************************************************************)
EXTENDS LockboxLedger, FiniteSetTheorems, TLAPS

SealsAreOneBinding(e) == e.seals = {} \/ \E s \in sealings : e.seals = {s}

SealInv ==
  /\ \A h \in alive : SealsAreOneBinding(obj[h])
  /\ SealsAreOneBinding(file.exp)
  /\ SealsAreOneBinding(tmp.exp)

\* DisclosuresAreReal, unfolded over the objects and the file.
Real(e) ==
  Disclosures(e.events) # {} => \E i \in DOMAIN releases : e.seals = {releases[i]}

RealInv ==
  /\ \A h \in alive : Real(obj[h])
  /\ Real(file.exp)
  /\ Real(tmp.exp)
  /\ \A i \in DOMAIN releases : releases[i] \in sealings

IInv ==
  /\ TypeOK
  /\ LogsAreLives
  /\ IsLifeLog(tmp.exp.events)
  /\ SealInv
  /\ RealInv

-----------------------------------------------------------------------------
\* Callers and the guard are actors, and "DISCLOSED" is a state.
LEMMA ActorsAct ==
  /\ \A actor \in Callers : actor \in Actors
  /\ "system" \in Actors /\ GuardActor \in Actors /\ "DISCLOSED" \in States
BY DEF Actors, States

\* A created experiment is well typed and its log is a legal life.
LEMMA CreatedIsLife ==
  /\ Created \in Experiments
  /\ IsLifeLog(Created.events)
  /\ Last(Created.events).to = Created.state
  /\ Disclosures(Created.events) = {}
BY DEF Created, Experiments, Bindings, Events, States, Actors, IsLifeLog, Last, Disclosures

\* A transition that _transition lets through keeps the type of an experiment.
LEMMA TransitionedType ==
  ASSUME NEW e \in Experiments, NEW to \in States, NEW actor \in Actors
  PROVE  /\ Transitioned(e, to, actor) \in Experiments
         /\ Transitioned(e, to, actor).seals = e.seals
         /\ Transitioned(e, to, actor).state = to
         /\ Transitioned(e, to, actor).events =
              Append(e.events, [from |-> e.state, to |-> to, actor |-> actor])
<1> DEFINE ev == [from |-> e.state, to |-> to, actor |-> actor]
           tr == [[e EXCEPT !.state = to] EXCEPT !.events = Append(e.events, ev)]
<1>1. ev \in Events /\ e.events \in Seq(Events)
  BY DEF Events, Experiments
<1>2. Append(e.events, ev) \in Seq(Events) \ {<< >>}
  BY <1>1
<1>3. Transitioned(e, to, actor) = tr
  BY DEF Transitioned, Experiments
<1>4. /\ tr \in Experiments
      /\ tr.seals = e.seals /\ tr.state = to /\ tr.events = Append(e.events, ev)
  <2> HIDE DEF ev
  <2> QED BY <1>1, <1>2 DEF Experiments
<1>5. QED
  BY <1>3, <1>4

\* No transition touches the seals.
LEMMA TransitionedSeals ==
  ASSUME NEW e \in Experiments, NEW to, NEW actor
  PROVE  Transitioned(e, to, actor).seals = e.seals
BY DEF Transitioned, Experiments

\* A transition that _transition lets through extends a legal life.
LEMMA TransitionedIsLife ==
  ASSUME NEW e \in Experiments, NEW to \in States, NEW actor \in Actors,
         IsLifeLog(e.events), Last(e.events).to = e.state,
         to \in Allowed(e.state), to = "DISCLOSED" => actor = GuardActor
  PROVE  /\ IsLifeLog(Transitioned(e, to, actor).events)
         /\ Last(Transitioned(e, to, actor).events).to = to
<1> DEFINE ev  == [from |-> e.state, to |-> to, actor |-> actor]
           log == Append(e.events, ev)
<1>1. Transitioned(e, to, actor).events = log
  BY TransitionedType
<1>2. /\ e.events \in Seq(Events) /\ Len(e.events) \in Nat /\ Len(e.events) >= 1
      /\ ev \in Events
  BY DEF Experiments, IsLifeLog, Events
<1>3. Len(log) = Len(e.events) + 1 /\ log[Len(log)] = ev
      /\ \A i \in 1 .. Len(e.events) : log[i] = e.events[i]
  BY <1>2
<1>4. ASSUME NEW i \in 2 .. Len(log)
      PROVE  /\ log[i].from = log[i-1].to
             /\ log[i].to \in Allowed(log[i].from)
             /\ log[i].to = "DISCLOSED" => log[i].actor = GuardActor
  <2>1. CASE i = Len(log)
    BY <2>1, <1>2, <1>3 DEF Last
  <2>2. CASE i # Len(log)
    <3>1. i \in 2 .. Len(e.events) /\ i - 1 \in 1 .. Len(e.events)
      BY <2>2, <1>2, <1>3
    <3>2. QED
      BY <3>1, <1>2, <1>3 DEF IsLifeLog
  <2>3. QED
    BY <2>1, <2>2
<1>5. log # << >> /\ log[1] = e.events[1] /\ Last(log) = ev
  BY <1>2, <1>3 DEF Last
<1>6. QED
  BY <1>1, <1>4, <1>5 DEF IsLifeLog

\* A transition to another state than DISCLOSED logs no new disclosure.
LEMMA NoNewDisclosure ==
  ASSUME NEW e \in Experiments, NEW to \in States, NEW actor \in Actors,
         to # "DISCLOSED", Disclosures(Transitioned(e, to, actor).events) # {}
  PROVE  Disclosures(e.events) # {}
<1>1. Transitioned(e, to, actor).events =
        Append(e.events, [from |-> e.state, to |-> to, actor |-> actor])
  BY TransitionedType
<1>2. e.events \in Seq(Events)
  BY DEF Experiments
<1>3. QED
  BY <1>1, <1>2 DEF Disclosures, Events

\* A legal life that still is in CREATED has disclosed nothing.
LEMMA CreatedDisclosesNothing ==
  ASSUME NEW e \in Experiments, IsLifeLog(e.events),
         Last(e.events).to = e.state, e.state = "CREATED"
  PROVE  Disclosures(e.events) = {}
<1>1. e.events \in Seq(Events) /\ Len(e.events) \in Nat /\ Len(e.events) >= 1
  BY DEF Experiments, IsLifeLog
<1>2. \A s \in States \cup {"None"} : "CREATED" \notin Allowed(s)
  BY DEF Allowed, States
<1>3. Len(e.events) = 1
  <2>1. SUFFICES ASSUME Len(e.events) # 1 PROVE FALSE
    OBVIOUS
  <2>5. Len(e.events) \in 2 .. Len(e.events)
    <3> DEFINE n == Len(e.events)
    <3>1. n \in Nat /\ n >= 1 /\ n # 1
      BY <1>1, <2>1
    <3> HIDE DEF n
    <3>2. n \in 2 .. n
      BY <3>1
    <3>3. QED
      BY <3>2 DEF n
  <2>2. e.events[Len(e.events)].to \in Allowed(e.events[Len(e.events)].from)
    BY <2>5 DEF IsLifeLog
  <2>3. e.events[Len(e.events)] \in Events
    BY <1>1
  <2>4. QED
    BY <1>2, <2>2, <2>3 DEF Last, Events
<1>4. QED
  BY <1>1, <1>3 DEF Disclosures, Last

-----------------------------------------------------------------------------
(***************************************************************************)
(* Inductiveness.  "One holder moves" covers the steps that change nothing *)
(* but the object of one running holder, and the histories.                *)
(***************************************************************************)

\* The new object of holder h keeps every per-object conjunct of IInv.
GoodObject(e) ==
  /\ e \in Experiments
  /\ IsLifeLog(e.events)
  /\ Last(e.events).to = e.state

\* IInv after a step that replaces the object of h by e and only records more.
LEMMA OneHolderMoves ==
  ASSUME IInv, NEW h \in alive, NEW e,
         GoodObject(e),
         obj' = [obj EXCEPT ![h] = e],
         UNCHANGED << alive, born, stale, disk >>,
         sealings' \subseteq Seals, sealings \subseteq sealings',
         releases' \in Seq(Seals),
         \A i \in DOMAIN releases :
            i \in DOMAIN releases' /\ releases'[i] = releases[i],
         \A i \in DOMAIN releases' : releases'[i] \in sealings',
         SealsAreOneBinding(e)',
         Real(e)'
  PROVE  IInv'
<1>1. \A g \in Holders : obj'[g] = IF g = h THEN e ELSE obj[g]
  BY DEF IInv, TypeOK
<1>2. TypeOK'
  BY DEF IInv, TypeOK, Saving, disk, GoodObject
<1>3. LogsAreLives'
  BY <1>1 DEF IInv, TypeOK, LogsAreLives, disk, GoodObject
<1>4. IsLifeLog(tmp.exp.events)'
  BY DEF IInv, disk
<1>5. ASSUME NEW x, SealsAreOneBinding(x), UNCHANGED x
      PROVE  SealsAreOneBinding(x)'
  BY <1>5 DEF SealsAreOneBinding
<1>6. ASSUME NEW x, Real(x), UNCHANGED x
      PROVE  Real(x)'
  BY <1>6 DEF Real
<1>7. SealInv'
  <2>1. SealsAreOneBinding(file.exp)' /\ SealsAreOneBinding(tmp.exp)'
    BY <1>5 DEF IInv, SealInv, disk
  <2>2. ASSUME NEW g \in alive PROVE SealsAreOneBinding(obj[g])'
    <3>1. CASE g = h
      BY <3>1, <1>1 DEF IInv, TypeOK, SealsAreOneBinding
    <3>2. CASE g # h
      BY <3>2, <1>1, <1>5 DEF IInv, TypeOK, SealInv
    <3>3. QED
      BY <3>1, <3>2
  <2>3. QED
    BY <2>1, <2>2 DEF SealInv
<1>8. RealInv'
  <2>1. Real(file.exp)' /\ Real(tmp.exp)'
    BY <1>6 DEF IInv, RealInv, disk
  <2>2. ASSUME NEW g \in alive PROVE Real(obj[g])'
    <3>1. CASE g = h
      BY <3>1, <1>1 DEF IInv, TypeOK, Real
    <3>2. CASE g # h
      BY <3>2, <1>1, <1>6 DEF IInv, TypeOK, RealInv
    <3>3. QED
      BY <3>1, <3>2
  <2>3. QED
    BY <2>1, <2>2 DEF RealInv
<1>9. QED
  BY <1>2, <1>3, <1>4, <1>7, <1>8 DEF IInv

LEMMA InitIInv == Init => IInv
<1> SUFFICES ASSUME Init PROVE IInv
  OBVIOUS
<1>1. TypeOK
  <2>1. obj \in [Holders -> Experiments]
    BY CreatedIsLife DEF Init
  <2>2. file \in Files /\ tmp \in Files
    BY CreatedIsLife DEF Init, Files, Unreadable, Kinds
  <2>3. releases \in Seq(Seals) /\ sealings \subseteq Seals
    BY DEF Init
  <2>4. QED
    BY <2>1, <2>2, <2>3 DEF Init, TypeOK, Saving, Phases
<1>2. LogsAreLives /\ IsLifeLog(tmp.exp.events)
  BY CreatedIsLife DEF Init, LogsAreLives, Unreadable
<1>3. SealInv
  BY DEF Init, SealInv, SealsAreOneBinding, Unreadable, Created
<1>4. RealInv
  BY CreatedIsLife DEF Init, RealInv, Real, Unreadable
<1>5. QED
  BY <1>1, <1>2, <1>3, <1>4 DEF IInv

\* What IInv says of a live holder's object.
LEMMA LiveObject ==
  ASSUME IInv, NEW h \in alive
  PROVE  h \in Holders /\ GoodObject(obj[h])
BY DEF IInv, TypeOK, LogsAreLives, GoodObject

\* Sealing a created experiment binds one pair and discloses nothing.
LEMMA SealedObject ==
  ASSUME NEW e \in Experiments, NEW s \in Seals, GoodObject(e), e.state = "CREATED"
  PROVE  /\ GoodObject(Sealed(e, s))
         /\ Sealed(e, s).seals = {s}
         /\ Disclosures(Sealed(e, s).events) = {}
<1> DEFINE bound == [e EXCEPT !.seals = {s}]
<1>1. Sealed(e, s) = Transitioned(bound, "SEALED", "system")
  BY DEF Sealed
<1>8. /\ bound \in Experiments /\ bound.seals = {s}
      /\ bound.state = "CREATED" /\ bound.events = e.events
  <2>1. {s} \in Bindings
    BY DEF Bindings
  <2>2. QED
    BY <2>1 DEF Experiments
<1> HIDE DEF bound
<1>2. "SEALED" \in Allowed("CREATED") /\ "SEALED" \in States /\ "system" \in Actors
  BY DEF Allowed, States, Actors
<1>3. /\ Transitioned(bound, "SEALED", "system") \in Experiments
      /\ Transitioned(bound, "SEALED", "system").seals = {s}
      /\ Transitioned(bound, "SEALED", "system").state = "SEALED"
  BY <1>2, <1>8, TransitionedType
<1>4. /\ IsLifeLog(Transitioned(bound, "SEALED", "system").events)
      /\ Last(Transitioned(bound, "SEALED", "system").events).to = "SEALED"
  BY <1>2, <1>8, TransitionedIsLife DEF GoodObject, GuardActor
<1>5. Disclosures(bound.events) = {}
  BY <1>8, CreatedDisclosesNothing DEF GoodObject
<1>6. Disclosures(Transitioned(bound, "SEALED", "system").events) = {}
  BY <1>2, <1>5, <1>8, NoNewDisclosure
<1>7. QED
  BY <1>1, <1>3, <1>4, <1>6 DEF GoodObject

LEMMA SealStep ==
  ASSUME IInv, NEW h \in Holders, NEW s \in Seals, Seal(h, s)
  PROVE  IInv'
<1> PICK e : e = Sealed(obj[h], s)
  OBVIOUS
<1>1. h \in alive /\ GoodObject(obj[h]) /\ obj[h].state = "CREATED"
  BY LiveObject DEF Seal, Running, MaySeal
<1>2. GoodObject(e) /\ e.seals = {s} /\ Disclosures(e.events) = {}
  BY <1>1, SealedObject DEF GoodObject
<1>3. /\ obj' = [obj EXCEPT ![h] = e]
      /\ UNCHANGED << alive, born, stale, disk, releases >>
      /\ sealings' = sealings \cup {s} /\ sealings \subseteq Seals
  BY DEF Seal, IInv, TypeOK
<1>4. /\ releases \in Seq(Seals)
      /\ \A i \in DOMAIN releases : releases[i] \in sealings
  BY DEF IInv, TypeOK, RealInv
<1>5. SealsAreOneBinding(e)' /\ Real(e)'
  BY <1>2, <1>3 DEF SealsAreOneBinding, Real
<1>6. QED
  BY <1>1, <1>2, <1>3, <1>4, <1>5, OneHolderMoves

LEMMA TransitionStep ==
  ASSUME IInv, NEW h \in Holders, NEW to \in States, NEW actor \in Callers,
         Transition(h, to, actor)
  PROVE  IInv'
<1> PICK e : e = Transitioned(obj[h], to, actor)
  OBVIOUS
<1>1. /\ h \in alive /\ GoodObject(obj[h])
      /\ to # "DISCLOSED" /\ to \in Allowed(obj[h].state)
  BY LiveObject DEF Transition, Running, MayTransition
<1>2. actor \in Actors
  BY DEF Actors
<1>3. e \in Experiments /\ e.seals = obj[h].seals /\ e.state = to
  BY <1>1, <1>2, TransitionedType DEF GoodObject
<1>4. GoodObject(e)
  BY <1>1, <1>2, <1>3, TransitionedIsLife DEF GoodObject, GuardActor
<1>5. SealsAreOneBinding(e)'
  BY <1>1, <1>3 DEF Transition, history, IInv, SealInv, SealsAreOneBinding
<1>6. Real(e)'
  <2>1. Disclosures(e.events) # {} => Disclosures(obj[h].events) # {}
    BY <1>1, <1>2, NoNewDisclosure DEF GoodObject
  <2>2. QED
    BY <2>1, <1>1, <1>3 DEF Transition, history, IInv, RealInv, Real
<1>7. /\ obj' = [obj EXCEPT ![h] = e]
      /\ UNCHANGED << alive, born, stale, disk, releases, sealings >>
  BY DEF Transition, history
<1>8. /\ releases \in Seq(Seals) /\ sealings \subseteq Seals
      /\ \A i \in DOMAIN releases : releases[i] \in sealings
  BY DEF IInv, TypeOK, RealInv
<1>9. QED
  BY <1>1, <1>4, <1>5, <1>6, <1>7, <1>8, OneHolderMoves

LEMMA OpenStep ==
  ASSUME IInv, NEW h \in Holders, NEW p \in Plans, NEW d \in Datas, Open(h, p, d)
  PROVE  IInv'
<1> PICK e : e = Transitioned(obj[h], "DISCLOSED", GuardActor)
  OBVIOUS
<1> DEFINE view == [plan |-> p, data |-> d]
<1>1. /\ h \in alive /\ GoodObject(obj[h])
      /\ "DISCLOSED" \in Allowed(obj[h].state)
  BY LiveObject DEF Open, Running, MayTransition
<1>2. GuardActor \in Actors /\ "DISCLOSED" \in States
  BY DEF Actors, States
<1>3. e \in Experiments /\ e.seals = obj[h].seals /\ e.state = "DISCLOSED"
  BY <1>1, <1>2, TransitionedType DEF GoodObject
<1>4. GoodObject(e)
  BY <1>1, <1>2, <1>3, TransitionedIsLife DEF GoodObject
<1>5. e.seals = {view} /\ view \in sealings /\ view \in Seals
  <2>1. PICK s \in obj[h].seals : s.plan = p /\ s.data = d
    BY DEF Open
  <2>2. obj[h].seals = {s} /\ s \in sealings /\ s \in Seals
    BY <1>1, <2>1 DEF IInv, SealInv, SealsAreOneBinding, TypeOK
  <2>3. s = view
    BY <2>1, <2>2 DEF Seals
  <2>4. QED
    BY <1>3, <2>2, <2>3
<1> HIDE DEF view
<1>6. /\ obj' = [obj EXCEPT ![h] = e]
      /\ UNCHANGED << alive, born, stale, disk, sealings >>
      /\ releases' = Append(releases, view)
  BY DEF Open, view
<1>7. /\ releases \in Seq(Seals) /\ sealings \subseteq Seals
      /\ \A i \in DOMAIN releases : releases[i] \in sealings
  BY DEF IInv, TypeOK, RealInv
<1>8. /\ releases' \in Seq(Seals)
      /\ \A i \in DOMAIN releases :
            i \in DOMAIN releases' /\ releases'[i] = releases[i]
      /\ Len(releases) + 1 \in DOMAIN releases'
      /\ releases'[Len(releases) + 1] = view
      /\ \A i \in DOMAIN releases' : releases'[i] \in sealings'
  BY <1>5, <1>6, <1>7
<1>9. SealsAreOneBinding(e)'
  BY <1>5, <1>6 DEF SealsAreOneBinding
<1>10. Real(e)'
  BY <1>5, <1>8 DEF Real
<1>11. sealings' \subseteq Seals /\ sealings \subseteq sealings'
  BY <1>6, <1>7
<1>12. QED
  BY <1>1, <1>4, <1>6, <1>8, <1>9, <1>10, <1>11, OneHolderMoves

\* The log and seals of x are those of an experiment in memory or on disk.
Kept(x) ==
  \E e : /\ e \in {file.exp, tmp.exp, Created} \/ \E h \in alive : e = obj[h]
         /\ x.events = e.events /\ x.seals = e.seals

\* IInv after a step that creates, reloads, drops or saves objects: given the
\* types, every new object and the new files are ones the old state vouches for.
LEMMA ObjectsMove ==
  ASSUME IInv, UNCHANGED << releases, sealings >>, TypeOK',
         \A h \in alive' :
            \/ h \in alive /\ obj'[h] = obj[h]
            \/ obj'[h] = Created
            \/ obj'[h] = file.exp /\ TailMatchesState(file.exp),
         Kept(file'.exp), Kept(tmp'.exp)
  PROVE  IInv'
<1>1. /\ IsLifeLog(file.exp.events) /\ file.exp \in Experiments
      /\ \A h \in alive : IsLifeLog(obj[h].events) /\ Last(obj[h].events).to = obj[h].state
  BY DEF IInv, TypeOK, Files, LogsAreLives
<1>2. ASSUME NEW x, Kept(x)
      PROVE  IsLifeLog(x.events) /\ SealsAreOneBinding(x) /\ Real(x)
  <2>1. PICK e : /\ e \in {file.exp, tmp.exp, Created} \/ \E h \in alive : e = obj[h]
                 /\ x.events = e.events /\ x.seals = e.seals
    BY <1>2 DEF Kept
  <2>2. IsLifeLog(e.events)
    BY <2>1, <1>1, CreatedIsLife DEF IInv
  <2>3. SealsAreOneBinding(e)
    BY <2>1 DEF IInv, SealInv, SealsAreOneBinding, Created
  <2>4. Real(e)
    BY <2>1, CreatedIsLife DEF IInv, RealInv, Real
  <2>5. QED
    BY <2>1, <2>2, <2>3, <2>4 DEF SealsAreOneBinding, Real
<1>3. /\ IsLifeLog(file'.exp.events) /\ SealsAreOneBinding(file'.exp) /\ Real(file'.exp)
      /\ IsLifeLog(tmp'.exp.events) /\ SealsAreOneBinding(tmp'.exp) /\ Real(tmp'.exp)
  BY <1>2
<1>4. LogsAreLives'
  <2>1. ASSUME NEW h \in alive'
        PROVE  IsLifeLog(obj'[h].events) /\ Last(obj'[h].events).to = obj'[h].state
    <3>1. CASE obj'[h] = file.exp /\ TailMatchesState(file.exp)
      BY <3>1, <1>1 DEF TailMatchesState, IsLifeLog, Last
    <3>2. QED
      BY <3>1, <1>1, CreatedIsLife
  <2>2. QED
    BY <1>3, <2>1 DEF LogsAreLives
<1>5. SealInv'
  <2>1. SealsAreOneBinding(file.exp)' /\ SealsAreOneBinding(tmp.exp)'
    BY <1>3 DEF SealsAreOneBinding
  <2>2. ASSUME NEW h \in alive' PROVE SealsAreOneBinding(obj[h])'
    BY DEF IInv, SealInv, SealsAreOneBinding, Created
  <2>3. QED
    BY <2>1, <2>2 DEF SealInv
<1>6. RealInv'
  <2>1. Real(file.exp) /\ \A h \in alive : Real(obj[h])
    BY DEF IInv, RealInv
  <2>2. Real(file.exp)' /\ Real(tmp.exp)'
    BY <1>3 DEF Real
  <2>3. ASSUME NEW h \in alive' PROVE Real(obj[h])'
    BY <2>1, CreatedIsLife DEF Real
  <2>4. QED
    BY <2>2, <2>3 DEF IInv, RealInv
<1>7. QED
  BY <1>3, <1>4, <1>5, <1>6 DEF IInv

\* What is there is vouched for, and so is a file that nothing can read.
LEMMA KeptTexts ==
  /\ Kept(file.exp) /\ Kept(tmp.exp)
  /\ \A k : Kept(Unreadable(k).exp)
  /\ \A h \in alive : Kept(Whole(obj[h]).exp)
BY DEF Kept, Unreadable, Whole

LEMMA CreateStep ==
  ASSUME IInv, NEW h \in Holders, Create(h)
  PROVE  IInv'
<1>1. TypeOK'
  <2>1. obj' \in [Holders -> Experiments]
    BY CreatedIsLife DEF IInv, TypeOK, Create
  <2>2. QED
    BY <2>1 DEF IInv, TypeOK, Saving, Create, disk
<1>2. UNCHANGED << file, tmp, releases, sealings >>
  BY DEF Create, disk
<1>3. \A g \in alive' : \/ obj'[g] = Created
                        \/ g \in alive /\ obj'[g] = obj[g]
  BY DEF IInv, TypeOK, Create
<1>4. QED
  BY <1>1, <1>2, <1>3, KeptTexts, ObjectsMove

\* What a write leaves: the text of the writer, or nothing one can read.
LEMMA OverwrittenFile ==
  ASSUME NEW e \in Experiments, NEW f, NEW g \in Overwritten(f, e)
  PROVE  /\ g = Whole(e) \/ g = Unreadable("mixed")
         /\ g \in Files
BY CreatedIsLife DEF Overwritten, Whole, Unreadable, Files, Kinds

\* The texts after a step of save() are vouched for, and typed.
LEMMA SavedTexts ==
  ASSUME IInv, NEW h \in Holders,
         SaveBegin(h) \/ SaveWrite(h) \/ SaveRename(h) \/ SaveFails(h)
  PROVE  /\ h \in alive /\ file' \in Files /\ tmp' \in Files
         /\ Kept(file'.exp) /\ Kept(tmp'.exp)
<1>1. /\ h \in alive /\ obj[h] \in Experiments
      /\ file \in Files /\ tmp \in Files
  BY DEF IInv, TypeOK, Saving, SaveBegin, SaveWrite, SaveRename, SaveFails, Running
<1>2. \A k \in Kinds : Unreadable(k) \in Files
  BY CreatedIsLife DEF Unreadable, Files
<1>3. CASE SaveBegin(h)
  BY <1>1, <1>2, <1>3, KeptTexts DEF SaveBegin, Kinds
<1>4. CASE SaveWrite(h)
  <2>1. /\ tmp' = tmp \/ tmp' \in Overwritten(tmp, obj[h])
        /\ file' = file \/ file' \in Overwritten(file, obj[h])
    BY <1>4 DEF SaveWrite
  <2>2. /\ tmp' \in {tmp, Whole(obj[h]), Unreadable("mixed")} /\ tmp' \in Files
        /\ file' \in {file, Whole(obj[h]), Unreadable("mixed")} /\ file' \in Files
    BY <1>1, <2>1, OverwrittenFile
  <2>3. QED
    BY <1>1, <2>2, KeptTexts
<1>5. CASE SaveRename(h)
  BY <1>1, <1>2, <1>5, KeptTexts DEF SaveRename, Kinds
<1>6. CASE SaveFails(h)
  BY <1>1, <1>6, KeptTexts DEF SaveFails
<1>7. QED
  BY <1>3, <1>4, <1>5, <1>6

LEMMA SaveStep ==
  ASSUME IInv, NEW h \in Holders,
         SaveBegin(h) \/ SaveWrite(h) \/ SaveRename(h) \/ SaveFails(h)
  PROVE  IInv'
<1>1. /\ h \in alive /\ file' \in Files /\ tmp' \in Files
      /\ Kept(file'.exp) /\ Kept(tmp'.exp)
  BY SavedTexts
<1>2. UNCHANGED << alive, obj, born, releases, sealings >>
  BY DEF SaveBegin, SaveWrite, SaveRename, SaveFails, memory, history
<1>3. /\ saving' \in [Holders -> Phases] /\ Saving' \subseteq Saving \cup {h}
      /\ overlapped' \subseteq Saving' /\ stale' \subseteq alive
  <2>1. /\ saving \in [Holders -> Phases] /\ overlapped \subseteq Saving
        /\ stale \subseteq alive
    BY DEF IInv, TypeOK
  <2>2. CASE SaveBegin(h)
    BY <2>1, <2>2 DEF SaveBegin, Saving, Phases, history
  <2>3. CASE SaveWrite(h)
    BY <2>1, <2>3 DEF SaveWrite, Saving, Phases
  <2>4. CASE SaveRename(h)
    <3>1. /\ saving' \in [Holders -> Phases] /\ saving'[h] = "no"
          /\ \A g \in Holders \ {h} : saving'[g] = "no" <=> saving[g] = "no"
      BY <2>1, <2>4, Zenon DEF SaveRename, Phases
    <3>2. Saving' = Saving \ {h}
      BY <3>1 DEF Saving
    <3>3. QED
      BY <2>1, <2>4, <3>1, <3>2 DEF SaveRename
  <2>5. CASE SaveFails(h)
    BY <2>1, <2>5 DEF SaveFails, Saving, Phases, history
  <2>6. QED
    BY <2>2, <2>3, <2>4, <2>5
<1>4. TypeOK'
  BY <1>1, <1>2, <1>3 DEF IInv, TypeOK
<1>5. QED
  BY <1>1, <1>2, <1>4, ObjectsMove

LEMMA LoadStep ==
  ASSUME IInv, NEW h \in Holders, Load(h)
  PROVE  IInv'
<1>1. TypeOK'
  <2>1. obj' \in [Holders -> Experiments]
    BY DEF IInv, TypeOK, Load, Files
  <2>2. QED
    BY <2>1 DEF IInv, TypeOK, Saving, Load, disk
<1>2. UNCHANGED << file, tmp, releases, sealings >>
  BY DEF Load, disk
<1>3. \A g \in alive' : \/ g \in alive /\ obj'[g] = obj[g]
                        \/ obj'[g] = file.exp /\ TailMatchesState(file.exp)
  BY DEF IInv, TypeOK, Load
<1>4. QED
  BY <1>1, <1>2, <1>3, KeptTexts, ObjectsMove

LEMMA CrashStep ==
  ASSUME IInv, NEW h \in Holders, Crash(h)
  PROVE  IInv'
<1>1. TypeOK'
  <2>1. obj' \in [Holders -> Experiments]
    BY CreatedIsLife DEF IInv, TypeOK, Crash
  <2>2. QED
    BY <2>1 DEF IInv, TypeOK, Saving, Phases, Crash
<1>2. UNCHANGED << file, tmp, releases, sealings >>
  BY DEF Crash
<1>3. \A g \in alive' : g \in alive /\ obj'[g] = obj[g]
  BY DEF IInv, TypeOK, Crash
<1>4. QED
  BY <1>1, <1>2, <1>3, KeptTexts, ObjectsMove

LEMMA EditStep ==
  ASSUME IInv, NEW s \in EditTargets, EditState(s)
  PROVE  IInv'
<1>1. /\ s \in States /\ file \in Files
      /\ file' = [file EXCEPT !.exp.state = s]
  BY EditAssumption DEF EditState, IInv, TypeOK
<1>2. /\ file' \in Files
      /\ file'.exp.events = file.exp.events /\ file'.exp.seals = file.exp.seals
  BY <1>1 DEF Files, Experiments
<1>3. UNCHANGED << tmp, alive, obj, born, releases, sealings >>
  BY DEF EditState, memory, history
<1>4. TypeOK'
  BY <1>2, <1>3 DEF IInv, TypeOK, Saving, EditState, history
<1>5. Kept(file'.exp) /\ Kept(tmp'.exp)
  BY <1>2, <1>3, KeptTexts DEF Kept
<1>6. \A g \in alive' : g \in alive /\ obj'[g] = obj[g]
  BY <1>3
<1>7. QED
  BY <1>3, <1>4, <1>5, <1>6, ObjectsMove

LEMMA NextIInv == IInv /\ [Next]_vars => IInv'
<1> SUFFICES ASSUME IInv, [Next]_vars PROVE IInv'
  OBVIOUS
<1>1. CASE UNCHANGED vars
  <2>1. UNCHANGED << alive, obj, saving, file, tmp, born, releases, sealings, stale,
                     overlapped >>
    BY <1>1 DEF vars
  <2>2. TypeOK'
    BY <2>1 DEF IInv, TypeOK, Saving
  <2>3. QED
    BY <2>1, <2>2, KeptTexts, ObjectsMove
<1>2. ASSUME NEW h \in Holders, Create(h) PROVE IInv'
  BY <1>2, CreateStep
<1>3. ASSUME NEW h \in Holders, NEW s \in Seals, Seal(h, s) PROVE IInv'
  BY <1>3, SealStep
<1>4. ASSUME NEW h \in Holders, NEW to \in States, NEW actor \in Callers,
             Transition(h, to, actor)
      PROVE  IInv'
  BY <1>4, TransitionStep
<1>5. ASSUME NEW h \in Holders, NEW p \in Plans, NEW d \in Datas, Open(h, p, d)
      PROVE  IInv'
  BY <1>5, OpenStep
<1>6. ASSUME NEW h \in Holders, SaveBegin(h) \/ SaveWrite(h) \/ SaveRename(h) \/ SaveFails(h)
      PROVE  IInv'
  BY <1>6, SaveStep
<1>7. ASSUME NEW h \in Holders, Load(h) PROVE IInv'
  BY <1>7, LoadStep
<1>8. ASSUME NEW h \in Holders, Crash(h) PROVE IInv'
  BY <1>8, CrashStep
<1>9. ASSUME NEW s \in EditTargets, EditState(s) PROVE IInv'
  BY <1>9, EditStep
<1>10. QED
  BY <1>1, <1>2, <1>3, <1>4, <1>5, <1>6, <1>7, <1>8, <1>9 DEF Next

LEMMA Invariance == Spec => []IInv
BY InitIInv, NextIInv, PTL DEF Spec

-----------------------------------------------------------------------------
(***************************************************************************)
(* The invariants                                                          *)
(***************************************************************************)

\* Every variable keeps its type, whatever the holders, plans and data.
THEOREM TypeCorrect == Spec => []TypeOK
<1>1. IInv => TypeOK
  BY DEF IInv
<1>2. QED
  BY <1>1, Invariance, PTL

\* Every log in memory or on disk is a legal life and every object is in the
\* state its log ends with, whatever was crashed, reloaded or edited.
THEOREM LogsAlwaysLives == Spec => []LogsAreLives
<1>1. IInv => LogsAreLives
  BY DEF IInv
<1>2. QED
  BY <1>1, Invariance, PTL

\* The guard hands out rows only for bound seals, and a log claims an open
\* only if the rows of its own seals were handed out.
THEOREM DisclosuresAlwaysReal == Spec => []DisclosuresAreReal
<1>1. IInv => DisclosuresAreReal
  <2> SUFFICES ASSUME IInv PROVE DisclosuresAreReal
    OBVIOUS
  <2>1. ASSUME NEW e \in {obj[h] : h \in alive} \cup {file.exp},
               Disclosures(e.events) # {}
        PROVE  \E i \in DOMAIN releases : e.seals = {releases[i]}
    BY <2>1 DEF IInv, RealInv, Real
  <2>2. Range(releases) \subseteq sealings
    BY DEF IInv, RealInv, Range
  <2>3. QED
    BY <2>1, <2>2 DEF DisclosuresAreReal
<1>2. QED
  BY <1>1, Invariance, PTL

-----------------------------------------------------------------------------
(***************************************************************************)
(* Seals are bound once                                                    *)
(***************************************************************************)

\* No step changes seals that an object already carries.
LEMMA SealsKept ==
  ASSUME IInv, [Next]_vars, NEW h \in alive, h \in alive', obj[h].seals # {}
  PROVE  obj'[h].seals = obj[h].seals
<1>1. h \in Holders /\ obj[h] \in Experiments /\ obj \in [Holders -> Experiments]
  BY DEF IInv, TypeOK
<1>2. CASE obj' = obj
  BY <1>2
<1>3. ASSUME NEW g \in Holders, NEW e, obj' = [obj EXCEPT ![g] = e],
             g = h => e.seals = obj[h].seals
      PROVE  obj'[h].seals = obj[h].seals
  BY <1>1, <1>3
<1>4. ASSUME NEW g \in Holders, Create(g) \/ Load(g) \/ Crash(g)
      PROVE  obj'[h] = obj[h]
  BY <1>1, <1>4 DEF Create, Load, Crash
<1>5. ASSUME NEW g \in Holders, NEW s \in Seals, Seal(g, s)
      PROVE  obj'[h] = obj[h]
  BY <1>1, <1>5 DEF Seal, MaySeal
<1>6. ASSUME NEW g \in Holders, NEW to \in States, NEW actor \in Callers,
             Transition(g, to, actor)
      PROVE  obj'[h].seals = obj[h].seals
  <2> PICK e : e = Transitioned(obj[g], to, actor)
    OBVIOUS
  <2>1. obj[g] \in Experiments /\ obj' = [obj EXCEPT ![g] = e]
    BY <1>1, <1>6 DEF Transition
  <2>2. e.seals = obj[g].seals
    BY <2>1, TransitionedSeals
  <2>3. QED
    BY <1>3, <2>1, <2>2
<1>7. ASSUME NEW g \in Holders, NEW p \in Plans, NEW d \in Datas, Open(g, p, d)
      PROVE  obj'[h].seals = obj[h].seals
  <2> PICK e : e = Transitioned(obj[g], "DISCLOSED", GuardActor)
    OBVIOUS
  <2>1. obj[g] \in Experiments /\ obj' = [obj EXCEPT ![g] = e]
    BY <1>1, <1>7 DEF Open
  <2>2. e.seals = obj[g].seals
    BY <2>1, TransitionedSeals
  <2>3. QED
    BY <1>3, <2>1, <2>2
<1>8. ASSUME NEW g \in Holders, SaveBegin(g) \/ SaveWrite(g) \/ SaveRename(g) \/ SaveFails(g)
      PROVE  obj' = obj
  BY <1>8 DEF SaveBegin, SaveWrite, SaveRename, SaveFails, memory
<1>9. ASSUME NEW s \in EditTargets, EditState(s) PROVE obj' = obj
  BY <1>9 DEF EditState, memory
<1>10. QED
  BY <1>2, <1>4, <1>5, <1>6, <1>7, <1>8, <1>9 DEF Next, vars

\* Seals never change once bound, and there is never more than one binding.
THEOREM SealsOnlyBoundOnce == Spec => SealsAreBoundOnce
<1> DEFINE Bound == \A h \in alive \cap alive' :
                      /\ obj[h].seals # {} => obj'[h].seals = obj[h].seals
                      /\ Cardinality(obj'[h].seals) <= 1
<1>1. IInv /\ IInv' /\ [Next]_vars => [Bound]_vars
  <2> SUFFICES ASSUME IInv, IInv', [Next]_vars, NEW h \in alive \cap alive'
               PROVE  /\ obj[h].seals # {} => obj'[h].seals = obj[h].seals
                      /\ Cardinality(obj'[h].seals) <= 1
    OBVIOUS
  <2>1. obj[h].seals # {} => obj'[h].seals = obj[h].seals
    BY SealsKept
  <2>2. obj'[h].seals = {} \/ \E s \in sealings' : obj'[h].seals = {s}
    BY DEF IInv, SealInv, SealsAreOneBinding
  <2>3. Cardinality(obj'[h].seals) <= 1
    <3>1. CASE obj'[h].seals = {}
      BY <3>1, FS_EmptySet
    <3>2. ASSUME NEW s, obj'[h].seals = {s} PROVE Cardinality(obj'[h].seals) <= 1
      <4>1. Cardinality({s}) = 1
        BY FS_Singleton
      <4>2. QED
        BY <3>2, <4>1
    <3>3. QED
      BY <2>2, <3>1, <3>2
  <2>4. QED
    BY <2>1, <2>3
<1>2. QED
  BY <1>1, Invariance, PTL DEF Spec, SealsAreBoundOnce

-----------------------------------------------------------------------------
(***************************************************************************)
(* Saves are atomic as long as they do not meet                            *)
(*                                                                         *)
(* The invariant: a holder inside a save() that met no other is alone in   *)
(* it, and the temporary file is its own: empty, then its experiment.      *)
(***************************************************************************)

OwnSaves ==
  \A h \in Saving \ overlapped :
    /\ Saving = {h}
    /\ \/ saving[h] = "tmp" /\ tmp = Unreadable("empty")
       \/ saving[h] = "written" /\ tmp = Whole(obj[h])

LEMMA OwnInit == Init => OwnSaves
BY DEF Init, OwnSaves, Saving

\* A step that touches no save, and no object of a holder inside one.
LEMMA OwnStays ==
  ASSUME OwnSaves, UNCHANGED disk, \A h \in Saving : obj'[h] = obj[h]
  PROVE  OwnSaves'
BY DEF OwnSaves, Saving, disk, Whole, Unreadable

\* The objects of the other holders stay as they are.
LEMMA OthersStay ==
  ASSUME IInv, NEW h \in Holders, NEW e, h \notin Saving, obj' = [obj EXCEPT ![h] = e]
  PROVE  \A g \in Saving : obj'[g] = obj[g]
BY DEF IInv, TypeOK, Saving

LEMMA OwnNext == IInv /\ OwnSaves /\ [Next]_vars => OwnSaves'
<1> SUFFICES ASSUME IInv, OwnSaves, [Next]_vars PROVE OwnSaves'
  OBVIOUS
<1>0. /\ obj \in [Holders -> Experiments] /\ saving \in [Holders -> Phases]
      /\ Saving \subseteq alive /\ overlapped \subseteq Saving
  BY DEF IInv, TypeOK
<1>1. CASE UNCHANGED vars
  BY <1>1, OwnStays DEF vars, disk
<1>2. ASSUME NEW h \in Holders, Create(h) \/ Load(h) PROVE OwnSaves'
  <2>1. h \notin Saving /\ UNCHANGED disk /\ \E e : obj' = [obj EXCEPT ![h] = e]
    BY <1>0, <1>2 DEF Create, Load
  <2>2. QED
    BY <2>1, OthersStay, OwnStays
<1>3. ASSUME NEW h \in Holders, NEW s \in Seals, Seal(h, s) PROVE OwnSaves'
  <2>1. h \notin Saving /\ UNCHANGED disk /\ \E e : obj' = [obj EXCEPT ![h] = e]
    BY <1>0, <1>3 DEF Seal, Running, Saving
  <2>2. QED
    BY <2>1, OthersStay, OwnStays
<1>4. ASSUME NEW h \in Holders, NEW to \in States, NEW actor \in Callers,
             Transition(h, to, actor)
      PROVE  OwnSaves'
  <2>1. h \notin Saving /\ UNCHANGED disk /\ \E e : obj' = [obj EXCEPT ![h] = e]
    BY <1>0, <1>4 DEF Transition, Running, Saving
  <2>2. QED
    BY <2>1, OthersStay, OwnStays
<1>5. ASSUME NEW h \in Holders, NEW p \in Plans, NEW d \in Datas, Open(h, p, d)
      PROVE  OwnSaves'
  <2>1. h \notin Saving /\ UNCHANGED disk /\ \E e : obj' = [obj EXCEPT ![h] = e]
    BY <1>0, <1>5 DEF Open, Running, Saving
  <2>2. QED
    BY <2>1, OthersStay, OwnStays
<1>6. ASSUME NEW h \in Holders, SaveBegin(h) PROVE OwnSaves'
  <2>1. /\ Saving' = Saving \cup {h} /\ saving'[h] = "tmp" /\ tmp' = Unreadable("empty")
        /\ overlapped' = IF Saving = {} THEN overlapped ELSE overlapped \cup Saving \cup {h}
    BY <1>0, <1>6 DEF SaveBegin, Saving
  <2>2. QED
    BY <2>1 DEF OwnSaves, Unreadable
<1>7. ASSUME NEW h \in Holders, SaveWrite(h) PROVE OwnSaves'
  <2>1. Saving' = Saving /\ h \in Saving /\ UNCHANGED << obj, overlapped >>
    BY <1>0, <1>7 DEF SaveWrite, Saving, memory
  <2>2. ASSUME NEW g \in Saving \ overlapped
        PROVE  g = h /\ Saving = {g} /\ saving'[g] = "written" /\ tmp' = Whole(obj[g])
    <3>1. /\ Saving = {g} /\ g = h
          /\ saving[h] = "tmp" /\ tmp = Unreadable("empty")
      BY <1>7, <2>1, <2>2 DEF OwnSaves, SaveWrite
    <3>2. Overwritten(tmp, obj[h]) = {Whole(obj[h])}
      BY <3>1 DEF Overwritten
    <3>3. QED
      BY <1>0, <1>7, <3>1, <3>2 DEF SaveWrite
  <2>3. QED
    BY <2>1, <2>2 DEF OwnSaves, Whole
<1>8. ASSUME NEW h \in Holders, SaveRename(h) PROVE OwnSaves'
  <2>1. /\ saving'[h] = "no" /\ \A g \in Holders \ {h} : saving'[g] = "no" <=> saving[g] = "no"
    BY <1>0, <1>8, Zenon DEF SaveRename, Phases
  <2>2. Saving' = Saving \ {h} /\ overlapped' = overlapped \ {h} /\ h \in Saving
    BY <1>8, <2>1 DEF SaveRename, Saving
  <2>3. Saving' \ overlapped' = {}
    BY <2>2 DEF OwnSaves
  <2>4. QED
    BY <2>3 DEF OwnSaves
<1>9. ASSUME NEW h \in Holders, SaveFails(h) PROVE OwnSaves'
  <2>1. Saving' = Saving \ {h} /\ overlapped' = overlapped \ {h} /\ h \in Saving
    BY <1>0, <1>9 DEF SaveFails, Saving
  <2>2. Saving' \ overlapped' = {}
    BY <2>1 DEF OwnSaves
  <2>3. QED
    BY <2>2 DEF OwnSaves
<1>10. ASSUME NEW h \in Holders, Crash(h) PROVE OwnSaves'
  <2>1. /\ Saving' = Saving \ {h} /\ overlapped' = overlapped \ {h} /\ tmp' = tmp
        /\ \A g \in Holders \ {h} : obj'[g] = obj[g] /\ saving'[g] = saving[g]
    BY <1>0, <1>10 DEF Crash, Saving
  <2>2. ASSUME NEW g \in Saving' \ overlapped'
        PROVE  /\ Saving' = {g}
               /\ \/ saving'[g] = "tmp" /\ tmp' = Unreadable("empty")
                  \/ saving'[g] = "written" /\ tmp' = Whole(obj'[g])
    <3>1. g \in Saving \ overlapped /\ g \in Holders \ {h}
      BY <2>1, <2>2 DEF Saving
    <3>2. QED
      BY <2>1, <3>1 DEF OwnSaves
  <2>3. QED
    BY <2>2 DEF OwnSaves, Whole, Unreadable
<1>11. ASSUME NEW s \in EditTargets, EditState(s) PROVE OwnSaves'
  BY <1>11 DEF EditState, OwnSaves, Saving, memory, Whole, Unreadable
<1>12. QED
  BY <1>1, <1>2, <1>3, <1>4, <1>5, <1>6, <1>7, <1>8, <1>9, <1>10, <1>11 DEF Next

\* While no save meets another, experiment.json only changes from one whole
\* experiment to the whole experiment of the holder whose save ends, wherever
\* saves are cut off by crashes.
THEOREM SavesAlwaysAtomic == Spec => SavesAreAtomic
<1> DEFINE Atomic == overlapped = {} =>
              \/ file' = [file EXCEPT !.exp.state = file'.exp.state]
              \/ \E h \in Holders : /\ saving[h] # "no" /\ saving'[h] = "no"
                                    /\ file' = Whole(obj[h])
<1>1. IInv /\ OwnSaves /\ [Next]_vars => [Atomic]_vars
  <2> SUFFICES ASSUME IInv, OwnSaves, Next, overlapped = {} PROVE Atomic
    OBVIOUS
  <2>0. file \in Files /\ saving \in [Holders -> Phases]
    BY DEF IInv, TypeOK
  <2>1. CASE file' = file
    BY <2>0, <2>1 DEF Files, Experiments
  <2>2. ASSUME NEW h \in Holders, SaveWrite(h) PROVE file' = file
    BY <2>2 DEF SaveWrite, OwnSaves, Saving
  <2>3. ASSUME NEW h \in Holders, SaveRename(h) PROVE Atomic
    <3>1. saving[h] # "no" /\ file' = Whole(obj[h])
      BY <2>3 DEF SaveRename, OwnSaves, Saving
    <3>2. saving'[h] = "no"
      BY <2>3, Zenon DEF SaveRename
    <3>3. QED
      BY <3>1, <3>2
  <2>4. ASSUME NEW s \in EditTargets, EditState(s) PROVE Atomic
    BY <2>0, <2>4 DEF EditState, Files, Experiments
  <2>5. QED
    BY <2>1, <2>2, <2>3, <2>4
       DEF Next, Create, Seal, Transition, Open, SaveBegin, SaveFails, Load, Crash, disk
<1>2. QED
  BY <1>1, OwnInit, OwnNext, Invariance, PTL DEF Spec, SavesAreAtomic

-----------------------------------------------------------------------------
(***************************************************************************)
(* A save replaces only what its holder knows                              *)
(*                                                                         *)
(* The invariant: a holder whose last load or save no other save followed  *)
(* carries a log that extends the file's.  It rests on experiment ids      *)
(* being unique: there is no file before the experiment is created.        *)
(***************************************************************************)

KnownInv ==
  /\ ~born => alive = {} /\ file.kind # "whole"
  /\ file.kind = "whole" =>
       \A h \in alive \ stale : IsPrefix(file.exp.events, obj[h].events)

\* A log is a prefix of itself, and stays a prefix of what is appended to.
LEMMA PrefixReflexive ==
  ASSUME NEW S, NEW s \in Seq(S)
  PROVE  IsPrefix(s, s)
BY DEF IsPrefix

LEMMA PrefixAppend ==
  ASSUME NEW S, NEW s \in Seq(S), NEW t \in Seq(S), NEW x \in S, IsPrefix(s, t)
  PROVE  IsPrefix(s, Append(t, x))
<1>1. /\ Len(s) \in Nat /\ Len(t) \in Nat /\ Len(s) <= Len(t)
      /\ SubSeq(s, 1, Len(s)) = SubSeq(t, 1, Len(s))
  BY DEF IsPrefix
<1>2. SubSeq(Append(t, x), 1, Len(s)) = SubSeq(t, 1, Len(s))
  BY <1>1
<1>3. QED
  BY <1>1, <1>2 DEF IsPrefix

\* One holder's object goes on from its log, and nothing else changes.
LEMMA KnownGoesOn ==
  ASSUME IInv, KnownInv, NEW h \in alive, NEW e,
         obj' = [obj EXCEPT ![h] = e],
         \/ e.events = obj[h].events
         \/ \E ev \in Events : e.events = Append(obj[h].events, ev),
         UNCHANGED << alive, born, stale, file >>
  PROVE  KnownInv'
<1>1. ~born' => alive' = {} /\ file'.kind # "whole"
  BY DEF KnownInv
<1>2. ASSUME file.kind = "whole", NEW g \in alive \ stale
      PROVE  IsPrefix(file.exp.events, obj'[g].events)
  <2>1. IsPrefix(file.exp.events, obj[g].events) /\ g \in Holders /\ h \in Holders
    BY <1>2 DEF KnownInv, IInv, TypeOK
  <2>2. obj'[g] = IF g = h THEN e ELSE obj[g]
    BY <2>1 DEF IInv, TypeOK
  <2>3. file.exp.events \in Seq(Events) /\ obj[g].events \in Seq(Events)
    BY <2>1 DEF IInv, TypeOK, Files, Experiments
  <2>4. QED
    BY <2>1, <2>2, <2>3, PrefixAppend
<1>3. QED
  BY <1>1, <1>2 DEF KnownInv

LEMMA KnownInit == Init => KnownInv
BY DEF Init, KnownInv, Unreadable

LEMMA KnownNext == IInv /\ OwnSaves /\ KnownInv /\ [Next]_vars => KnownInv'
<1> SUFFICES ASSUME IInv, OwnSaves, KnownInv, [Next]_vars PROVE KnownInv'
  OBVIOUS
<1>0. /\ obj \in [Holders -> Experiments] /\ alive \subseteq Holders
      /\ Saving \subseteq alive /\ file \in Files
  BY DEF IInv, TypeOK
<1>1. CASE UNCHANGED vars
  BY <1>1 DEF vars, KnownInv
<1>2. ASSUME NEW h \in Holders, Create(h) PROVE KnownInv'
  BY <1>2 DEF Create, disk, KnownInv
<1>3. ASSUME NEW h \in Holders, NEW s \in Seals, Seal(h, s) PROVE KnownInv'
  <2> DEFINE bound == [obj[h] EXCEPT !.seals = {s}]
             ev == [from |-> "CREATED", to |-> "SEALED", actor |-> "system"]
  <2>1. h \in alive /\ obj[h] \in Experiments /\ obj[h].state = "CREATED"
    BY <1>0, <1>3 DEF Seal, Running, MaySeal
  <2>2. /\ bound \in Experiments /\ bound.events = obj[h].events
        /\ bound.state = "CREATED"
    <3>1. {s} \in Bindings
      BY DEF Bindings
    <3>2. QED
      BY <2>1, <3>1 DEF Experiments
  <2>3. Sealed(obj[h], s) = Transitioned(bound, "SEALED", "system")
    BY DEF Sealed
  <2> HIDE DEF bound
  <2>4. "SEALED" \in States /\ "system" \in Actors /\ ev \in Events
    BY DEF States, Actors, Events
  <2>5. Sealed(obj[h], s).events = Append(obj[h].events, ev)
    BY <2>2, <2>3, <2>4, TransitionedType
  <2> HIDE DEF ev
  <2>6. QED
    BY <1>3, <2>1, <2>4, <2>5, KnownGoesOn DEF Seal, disk
<1>4. ASSUME NEW h \in Holders, NEW to \in States, NEW actor \in Callers,
             Transition(h, to, actor)
      PROVE  KnownInv'
  <2> DEFINE ev == [from |-> obj[h].state, to |-> to, actor |-> actor]
  <2>1. h \in alive /\ obj[h] \in Experiments
    BY <1>0, <1>4 DEF Transition, Running
  <2>2. /\ Transitioned(obj[h], to, actor).events = Append(obj[h].events, ev)
        /\ ev \in Events
    <3>1. actor \in Actors /\ obj[h].state \in States
      BY <2>1, ActorsAct DEF Experiments
    <3>2. QED
      BY <2>1, <3>1, TransitionedType DEF Events
  <2> HIDE DEF ev
  <2>3. QED
    BY <1>4, <2>1, <2>2, KnownGoesOn DEF Transition, disk, history
<1>5. ASSUME NEW h \in Holders, NEW p \in Plans, NEW d \in Datas, Open(h, p, d)
      PROVE  KnownInv'
  <2> DEFINE ev == [from |-> obj[h].state, to |-> "DISCLOSED", actor |-> GuardActor]
  <2>1. h \in alive /\ obj[h] \in Experiments
    BY <1>0, <1>5 DEF Open, Running
  <2>2. /\ Transitioned(obj[h], "DISCLOSED", GuardActor).events = Append(obj[h].events, ev)
        /\ ev \in Events
    <3>1. GuardActor \in Actors /\ "DISCLOSED" \in States /\ obj[h].state \in States
      BY <2>1, ActorsAct DEF Experiments
    <3>2. QED
      BY <2>1, <3>1, TransitionedType DEF Events
  <2> HIDE DEF ev
  <2>3. QED
    BY <1>5, <2>1, <2>2, KnownGoesOn DEF Open, disk
<1>6. ASSUME NEW h \in Holders, SaveBegin(h) \/ SaveWrite(h) \/ SaveFails(h)
      PROVE  KnownInv'
  <2>1. UNCHANGED << alive, obj, born >> /\ alive # {}
    BY <1>0, <1>6 DEF SaveBegin, SaveWrite, SaveFails, Running, Saving, memory
  <2>2. UNCHANGED << file, stale >> \/ stale' = alive
    BY <1>6 DEF SaveBegin, SaveWrite, SaveFails, history
  <2>3. QED
    BY <2>1, <2>2 DEF KnownInv
<1>7. ASSUME NEW h \in Holders, SaveRename(h) PROVE KnownInv'
  <2>1. h \in Saving /\ h \in alive /\ UNCHANGED << alive, obj, born >>
    BY <1>0, <1>7 DEF SaveRename, Saving, memory
  <2>2. CASE h \in overlapped
    BY <1>7, <2>1, <2>2 DEF SaveRename, KnownInv
  <2>3. CASE h \notin overlapped
    <3>1. file'.exp = obj[h] /\ stale' = alive \ {h}
      BY <1>7, <2>1, <2>3 DEF SaveRename, OwnSaves, Whole
    <3>2. IsPrefix(obj[h].events, obj[h].events)
      BY <1>0, PrefixReflexive DEF Experiments
    <3>3. QED
      BY <2>1, <3>1, <3>2 DEF KnownInv
  <2>4. QED
    BY <2>2, <2>3
<1>8. ASSUME NEW h \in Holders, Load(h) PROVE KnownInv'
  <2>1. /\ alive' = alive \cup {h} /\ stale' = stale \ {h} /\ obj' = [obj EXCEPT ![h] = file.exp]
        /\ UNCHANGED << born, file >> /\ file.kind = "whole" /\ h \notin alive
    BY <1>8 DEF Load, disk
  <2>2. IsPrefix(file.exp.events, file.exp.events)
    BY <1>0, PrefixReflexive DEF Files, Experiments
  <2>3. obj'[h] = file.exp /\ \A g \in alive : obj'[g] = obj[g]
    BY <1>0, <2>1
  <2>4. QED
    BY <2>1, <2>2, <2>3 DEF KnownInv
<1>9. ASSUME NEW h \in Holders, Crash(h) PROVE KnownInv'
  <2>1. /\ alive' = alive \ {h} /\ stale' = stale \ {h} /\ obj' = [obj EXCEPT ![h] = Created]
        /\ UNCHANGED << born, file >>
    BY <1>9 DEF Crash
  <2>2. \A g \in alive' : obj'[g] = obj[g]
    BY <1>0, <2>1
  <2>3. QED
    BY <2>1, <2>2 DEF KnownInv
<1>10. ASSUME NEW s \in EditTargets, EditState(s) PROVE KnownInv'
  <2>1. /\ file'.kind = file.kind /\ file'.exp.events = file.exp.events
        /\ UNCHANGED << alive, obj, born, stale >>
    BY <1>0, <1>10 DEF EditState, memory, history, Files, Experiments
  <2>2. QED
    BY <2>1 DEF KnownInv
<1>11. QED
  BY <1>1, <1>2, <1>3, <1>4, <1>5, <1>6, <1>7, <1>8, <1>9, <1>10 DEF Next

\* A save extends the log it replaces unless another holder saved in between:
\* no history is lost to a holder that loaded or saved last.
THEOREM SavesKeepKnownLogs == Spec => SaveKeepsKnownLog
<1> DEFINE Keeps == \A h \in Holders :
                      (/\ saving[h] # "no" /\ saving'[h] = "no" /\ h \in alive'
                       /\ file.kind = "whole" /\ h \notin stale \cup overlapped)
                      => IsPrefix(file.exp.events, file'.exp.events)
<1>1. IInv /\ OwnSaves /\ KnownInv /\ [Next]_vars => [Keeps]_vars
  <2> SUFFICES ASSUME IInv, OwnSaves, KnownInv, Next, NEW h \in Holders,
                      saving[h] # "no", saving'[h] = "no", h \in alive',
                      file.kind = "whole", h \notin stale \cup overlapped
               PROVE  IsPrefix(file.exp.events, file'.exp.events)
    OBVIOUS
  <2>1. /\ h \in Saving /\ h \in alive /\ Saving = {h}
        /\ IsPrefix(file.exp.events, obj[h].events)
        /\ saving \in [Holders -> Phases] /\ file \in Files
    BY DEF IInv, TypeOK, Saving, OwnSaves, KnownInv
  <2>2. ASSUME NEW g \in Holders, SaveRename(g)
        PROVE  IsPrefix(file.exp.events, file'.exp.events)
    <3>1. g = h /\ file' = Whole(obj[h])
      BY <2>1, <2>2 DEF SaveRename, Saving, OwnSaves
    <3>2. QED
      BY <2>1, <3>1 DEF Whole
  <2>3. CASE file' = file
    BY <2>1, <2>3, PrefixReflexive DEF Files, Experiments
  <2>4. ASSUME NEW g \in Holders, SaveFails(g) \/ Crash(g) PROVE file' = file
    BY <2>4 DEF SaveFails, Crash
  <2>5. ASSUME NEW g \in Holders, SaveBegin(g) \/ SaveWrite(g) PROVE FALSE
    BY <2>1, <2>5 DEF SaveBegin, SaveWrite, Phases
  <2>6. ASSUME UNCHANGED saving PROVE FALSE
    BY <2>6
  <2>7. QED
    BY <2>2, <2>3, <2>4, <2>5, <2>6
       DEF Next, Create, Seal, Transition, Open, Load, EditState, disk
<1>2. QED
  BY <1>1, KnownInit, KnownNext, OwnInit, OwnNext, Invariance, PTL
     DEF Spec, SaveKeepsKnownLog

-----------------------------------------------------------------------------
(***************************************************************************)
(* Every object implements the one-shot box                                *)
(***************************************************************************)

Verdicts == {"CLOSED_ACCEPTED", "CLOSED_REJECTED"}

\* In a legal life the disclosure can only be the last event, or the one
\* before a final verdict: nothing else follows it.
LEMMA DisclosureOfLife ==
  ASSUME NEW log \in Seq(Events), IsLifeLog(log)
  PROVE  Disclosures(log) =
           IF Last(log).to = "DISCLOSED" THEN {Len(log)}
           ELSE IF Last(log).to \in Verdicts THEN {Len(log) - 1} ELSE {}
<1> PICK n \in Nat : n = Len(log) /\ n >= 1 /\ DOMAIN log = 1 .. n
  BY DEF IsLifeLog
<1>1. \A i \in 1 .. n : log[i] \in Events
  OBVIOUS
<1>2. \A i \in 2 .. n : log[i].from = log[i-1].to /\ log[i].to \in Allowed(log[i].from)
  BY DEF IsLifeLog
<1>3. \A i \in 1 .. n : log[i].to = "DISCLOSED" /\ i < n => log[i+1].to \in Verdicts
  <2>1. Allowed("DISCLOSED") = Verdicts
    BY DEF Allowed, Verdicts
  <2>2. QED
    BY <1>2, <2>1
<1>4. \A i \in 1 .. n : log[i].to \in Verdicts => i = n
  <2>1. \A s \in Verdicts : Allowed(s) = {}
    BY DEF Allowed, Verdicts
  <2>2. SUFFICES ASSUME NEW i \in 1 .. n, log[i].to \in Verdicts, i # n PROVE FALSE
    OBVIOUS
  <2>3. i + 1 \in 2 .. n /\ (i + 1) - 1 = i
    BY <2>2
  <2>4. log[i+1].to \in Allowed(log[i].to)
    BY <1>2, <2>3
  <2>5. QED
    BY <2>1, <2>2, <2>4
<1>5. log[n].to \in Verdicts => n >= 2 /\ log[n-1].to = "DISCLOSED"
  <2>1. \A s \in States \cup {"None"}, v \in Verdicts : v \in Allowed(s) => s = "DISCLOSED"
    BY DEF Allowed, States, Verdicts
  <2>2. SUFFICES ASSUME log[n].to \in Verdicts PROVE n >= 2 /\ log[n-1].to = "DISCLOSED"
    OBVIOUS
  <2>3. n # 1
    BY <2>2 DEF IsLifeLog, Verdicts
  <2>4. n \in 2 .. n /\ n \in 1 .. n
    BY <2>3
  <2>5. log[n].from = log[n-1].to /\ log[n].to \in Allowed(log[n].from)
    BY <1>2, <2>4
  <2>6. log[n].from \in States \cup {"None"}
    BY <1>1, <2>4 DEF Events
  <2>7. QED
    BY <2>1, <2>2, <2>4, <2>5, <2>6
<1>6. Last(log) = log[n] /\ "DISCLOSED" \notin Verdicts
  BY DEF Last, Verdicts
<1>7. CASE log[n].to = "DISCLOSED"
  BY <1>3, <1>4, <1>6, <1>7 DEF Disclosures
<1>8. CASE log[n].to \in Verdicts
  <2>1. n - 1 \in 1 .. n /\ log[n-1].to = "DISCLOSED"
    BY <1>5, <1>8
  <2>2. \A i \in 1 .. n : log[i].to = "DISCLOSED" => i = n - 1
    <3>1. SUFFICES ASSUME NEW i \in 1 .. n, log[i].to = "DISCLOSED" PROVE i = n - 1
      OBVIOUS
    <3>2. i # n
      BY <1>6, <1>8, <3>1
    <3>3. i + 1 \in 1 .. n
      BY <3>2
    <3>4. i + 1 = n
      BY <1>3, <1>4, <3>1, <3>2, <3>3
    <3>5. QED
      BY <3>4
  <2>3. QED
    BY <1>6, <1>8, <2>1, <2>2 DEF Disclosures
<1>9. CASE log[n].to # "DISCLOSED" /\ log[n].to \notin Verdicts
  <2>1. ASSUME NEW i \in 1 .. n, log[i].to = "DISCLOSED" PROVE FALSE
    <3>1. i < n
      BY <1>9, <2>1
    <3>2. i + 1 \in 1 .. n
      BY <3>1
    <3>3. i + 1 = n
      BY <1>3, <1>4, <2>1, <3>1, <3>2
    <3>4. QED
      BY <1>3, <1>9, <2>1, <3>1, <3>3
  <2>2. QED
    BY <1>6, <1>9, <2>1 DEF Disclosures
<1>10. QED
  BY <1>7, <1>8, <1>9

\* The object's own count of its disclosures is the one its phase tells.
LEMMA OpensOfObject ==
  ASSUME NEW e, GoodObject(e)
  PROVE  Cardinality(Disclosures(e.events)) = Boxes!OpensOf(PhaseOf(e))
<1>1. e.events \in Seq(Events) /\ IsLifeLog(e.events) /\ Last(e.events).to = e.state
  BY DEF GoodObject, Experiments
<1>2. CASE e.state = "DISCLOSED"
  <2>1. Cardinality({Len(e.events)}) = 1
    BY FS_Singleton
  <2>2. QED
    BY <1>1, <1>2, <2>1, DisclosureOfLife DEF PhaseOf, Boxes!OpensOf
<1>3. CASE e.state \in Verdicts
  <2>1. Cardinality({Len(e.events) - 1}) = 1
    BY FS_Singleton
  <2>2. e.state # "DISCLOSED"
    BY <1>3 DEF Verdicts
  <2>3. QED
    BY <1>1, <1>3, <2>1, <2>2, DisclosureOfLife DEF PhaseOf, Boxes!OpensOf, Verdicts
<1>4. CASE e.state \notin Verdicts \cup {"DISCLOSED"}
  <2>1. Cardinality(Disclosures(e.events)) = 0
    BY <1>1, <1>4, DisclosureOfLife, FS_EmptySet
  <2>2. QED
    BY <1>4, <2>1 DEF PhaseOf, Boxes!OpensOf, Verdicts
<1>5. QED
  BY <1>2, <1>3, <1>4

\* Hence the two variables of the boxes move together.
LEMMA OpensOfHolders ==
  IInv => BoxOpens = [h \in Holders |-> Boxes!OpensOf(BoxPhase[h])]
<1> SUFFICES ASSUME IInv PROVE BoxOpens = [h \in Holders |-> Boxes!OpensOf(BoxPhase[h])]
  OBVIOUS
<1>1. ASSUME NEW h \in Holders
      PROVE  (IF h \in alive THEN Cardinality(Disclosures(obj[h].events)) ELSE 0)
               = Boxes!OpensOf(BoxPhase[h])
  <2>1. CASE h \in alive
    <3>1. BoxPhase[h] = PhaseOf(obj[h])
      BY <2>1 DEF BoxPhase
    <3>2. QED
      BY <2>1, <3>1, LiveObject, OpensOfObject
  <2>2. CASE h \notin alive
    BY <2>2 DEF BoxPhase, Boxes!OpensOf
  <2>3. QED
    BY <2>1, <2>2
<1>2. QED
  BY <1>1 DEF BoxOpens

\* ... and do so in the next state.
LEMMA OpensOfHoldersNext ==
  IInv' => (BoxOpens = [h \in Holders |-> Boxes!OpensOf(BoxPhase[h])])'
BY OpensOfHolders, PTL

\* A step that moves the phase of one holder, with the opens that go with it.
LEMMA PhaseMoves ==
  ASSUME IInv, IInv', NEW h \in Holders, NEW p,
         BoxPhase' = [BoxPhase EXCEPT ![h] = p]
  PROVE  BoxOpens' = [BoxOpens EXCEPT ![h] = Boxes!OpensOf(p)]
<1>1. /\ BoxOpens  = [g \in Holders |-> Boxes!OpensOf(BoxPhase[g])]
      /\ BoxOpens' = [g \in Holders |-> Boxes!OpensOf(BoxPhase'[g])]
  BY OpensOfHolders, OpensOfHoldersNext
<1>2. \A g \in Holders : BoxPhase'[g] = IF g = h THEN p ELSE BoxPhase[g]
  BY DEF BoxPhase
<1>3. QED
  BY <1>1, <1>2

\* The phases are those of the live objects.
LEMMA PhaseOfStep ==
  ASSUME IInv, NEW h \in Holders, NEW e, h \in alive,
         alive' = alive, obj' = [obj EXCEPT ![h] = e]
  PROVE  BoxPhase' = [BoxPhase EXCEPT ![h] = PhaseOf(e)]
BY DEF IInv, TypeOK, BoxPhase

\* A step that touches no object stutters for the boxes.
LEMMA BoxesStutter ==
  ASSUME UNCHANGED << alive, obj >>
  PROVE  UNCHANGED << BoxPhase, BoxOpens >>
BY DEF BoxPhase, BoxOpens

\* From creation or from a file, an object starts in the phase of its state.
LEMMA HoldStep ==
  ASSUME IInv, IInv', NEW h \in Holders, Create(h) \/ Load(h)
  PROVE  Boxes!Hold(h)
<1> PICK e : e = obj'[h]
  OBVIOUS
<1>1. /\ h \notin alive /\ alive' = alive \cup {h}
      /\ \A g \in Holders : g # h => obj'[g] = obj[g]
  BY DEF IInv, TypeOK, Create, Load
<1>2. BoxPhase' = [BoxPhase EXCEPT ![h] = PhaseOf(e)] /\ BoxPhase[h] = "absent"
  BY <1>1 DEF BoxPhase
<1>3. PhaseOf(e) \in Boxes!Phases \ {"absent"}
  BY DEF PhaseOf, Boxes!Phases
<1>4. BoxOpens' = [BoxOpens EXCEPT ![h] = Boxes!OpensOf(PhaseOf(e))]
  BY <1>2, PhaseMoves
<1>5. QED
  BY <1>2, <1>3, <1>4 DEF Boxes!Hold, Boxes!Move

LEMMA DropStep ==
  ASSUME IInv, IInv', NEW h \in Holders, Crash(h)
  PROVE  Boxes!Drop(h)
<1>1. BoxPhase' = [BoxPhase EXCEPT ![h] = "absent"]
  BY DEF IInv, TypeOK, Crash, BoxPhase
<1>2. BoxOpens' = [BoxOpens EXCEPT ![h] = Boxes!OpensOf("absent")]
  BY <1>1, PhaseMoves
<1>3. QED
  BY <1>1, <1>2 DEF Boxes!Drop, Boxes!OpensOf

LEMMA OpenBoxStep ==
  ASSUME IInv, IInv', NEW h \in Holders, NEW p \in Plans, NEW d \in Datas, Open(h, p, d)
  PROVE  Boxes!Open(h)
<1> PICK e : e = Transitioned(obj[h], "DISCLOSED", GuardActor)
  OBVIOUS
<1>1. /\ h \in alive /\ GoodObject(obj[h]) /\ obj[h].state = "FROZEN"
      /\ alive' = alive /\ obj' = [obj EXCEPT ![h] = e]
  BY LiveObject DEF Open, Running
<1>2. e.state = "DISCLOSED"
  BY <1>1, ActorsAct, TransitionedType DEF GoodObject
<1>3. BoxPhase[h] = "frozen" /\ PhaseOf(e) = "open"
  BY <1>1, <1>2 DEF BoxPhase, PhaseOf
<1>4. BoxPhase' = [BoxPhase EXCEPT ![h] = "open"]
  BY <1>1, <1>3, PhaseOfStep
<1>5. BoxOpens' = [BoxOpens EXCEPT ![h] = 1] /\ BoxOpens[h] = 0
  BY <1>3, <1>4, PhaseMoves, OpensOfHolders DEF Boxes!OpensOf
<1>6. BoxOpens' = [BoxOpens EXCEPT ![h] = @ + 1]
  BY <1>5
<1>7. QED
  BY <1>3, <1>4, <1>6 DEF Boxes!Open, Boxes!Move

LEMMA TransitionBoxStep ==
  ASSUME IInv, IInv', NEW h \in Holders, NEW to \in States, NEW actor \in Callers,
         Transition(h, to, actor)
  PROVE  \/ Boxes!Freeze(h) \/ Boxes!Abandon(h) \/ Boxes!Judge(h)
         \/ UNCHANGED << BoxPhase, BoxOpens >>
<1> PICK e : e = Transitioned(obj[h], to, actor)
  OBVIOUS
<1>1. /\ h \in alive /\ GoodObject(obj[h])
      /\ to # "DISCLOSED" /\ to \in Allowed(obj[h].state)
      /\ alive' = alive /\ obj' = [obj EXCEPT ![h] = e]
  BY LiveObject DEF Transition, Running, MayTransition
<1>2. e.state = to
  BY <1>1, ActorsAct, TransitionedType DEF GoodObject
<1>3. BoxPhase' = [BoxPhase EXCEPT ![h] = PhaseOf(e)]
  BY <1>1, PhaseOfStep
<1>4. BoxOpens' = [BoxOpens EXCEPT ![h] = Boxes!OpensOf(PhaseOf(e))]
  BY <1>3, PhaseMoves
<1>5. /\ BoxPhase = [g \in Holders |-> BoxPhase[g]]
      /\ BoxOpens = [g \in Holders |-> Boxes!OpensOf(BoxPhase[g])]
      /\ BoxPhase[h] = PhaseOf(obj[h])
  BY <1>1, OpensOfHolders DEF BoxPhase
<1>6. \/ BoxPhase[h] = "blind" /\ PhaseOf(e) \in {"blind", "frozen", "abandoned"}
      \/ BoxPhase[h] = "open" /\ PhaseOf(e) = "judged"
  <2>1. obj[h].state \in States
    BY <1>1 DEF GoodObject, Experiments
  <2>2. QED
    BY <1>1, <1>2, <1>5, <2>1 DEF Allowed, States, PhaseOf
<1>7. CASE PhaseOf(e) = BoxPhase[h]
  BY <1>3, <1>4, <1>5, <1>7
<1>8. CASE PhaseOf(e) # BoxPhase[h]
  <2>1. Boxes!OpensOf(PhaseOf(e)) = Boxes!OpensOf(BoxPhase[h])
    BY <1>6 DEF Boxes!OpensOf
  <2>2. BoxOpens' = BoxOpens
    BY <1>4, <1>5, <2>1
  <2>3. QED
    BY <1>3, <1>6, <1>8, <2>2 DEF Boxes!Freeze, Boxes!Abandon, Boxes!Judge, Boxes!Move
<1>9. QED
  BY <1>7, <1>8

LEMMA BoxesNext ==
  IInv /\ IInv' /\ [Next]_vars => [Boxes!Next]_<< BoxPhase, BoxOpens >>
<1> SUFFICES ASSUME IInv, IInv', [Next]_vars
             PROVE  Boxes!Next \/ UNCHANGED << BoxPhase, BoxOpens >>
  OBVIOUS
<1>1. CASE UNCHANGED << alive, obj >>
  BY <1>1, BoxesStutter
<1>2. ASSUME NEW h \in Holders, Create(h) \/ Load(h) PROVE Boxes!Next
  BY <1>2, HoldStep DEF Boxes!Next
<1>3. ASSUME NEW h \in Holders, Crash(h) PROVE Boxes!Next
  BY <1>3, DropStep DEF Boxes!Next
<1>4. ASSUME NEW h \in Holders, NEW p \in Plans, NEW d \in Datas, Open(h, p, d)
      PROVE  Boxes!Next
  BY <1>4, OpenBoxStep DEF Boxes!Next
<1>5. ASSUME NEW h \in Holders, NEW to \in States, NEW actor \in Callers,
             Transition(h, to, actor)
      PROVE  Boxes!Next \/ UNCHANGED << BoxPhase, BoxOpens >>
  BY <1>5, TransitionBoxStep DEF Boxes!Next
<1>6. ASSUME NEW h \in Holders, NEW s \in Seals, Seal(h, s)
      PROVE  UNCHANGED << BoxPhase, BoxOpens >>
  <2> PICK e : e = Sealed(obj[h], s)
    OBVIOUS
  <2>1. /\ h \in alive /\ GoodObject(obj[h]) /\ obj[h].state = "CREATED"
        /\ alive' = alive /\ obj' = [obj EXCEPT ![h] = e]
    BY <1>6, LiveObject DEF Seal, Running, MaySeal
  <2>2. e.state = "SEALED"
    <3>1. Sealed(obj[h], s).state = "SEALED"
      BY <2>1 DEF Sealed, Transitioned, GoodObject, Experiments
    <3>2. QED
      BY <3>1
  <2>3. BoxPhase' = [BoxPhase EXCEPT ![h] = PhaseOf(e)] /\ PhaseOf(e) = "blind"
    BY <2>1, <2>2, PhaseOfStep DEF PhaseOf
  <2>4. BoxPhase[h] = "blind"
    BY <2>1 DEF BoxPhase, PhaseOf
  <2>5. BoxPhase' = BoxPhase
    BY <2>3, <2>4 DEF BoxPhase
  <2>6. QED
    BY <2>5, OpensOfHolders, OpensOfHoldersNext
<1>7. ASSUME NEW h \in Holders, SaveBegin(h) \/ SaveWrite(h) \/ SaveRename(h) \/ SaveFails(h)
      PROVE  UNCHANGED << BoxPhase, BoxOpens >>
  <2>1. UNCHANGED << alive, obj >>
    BY <1>7 DEF SaveBegin, SaveWrite, SaveRename, SaveFails, memory
  <2>2. QED
    BY <2>1, BoxesStutter
<1>8. ASSUME NEW s \in EditTargets, EditState(s)
      PROVE  UNCHANGED << BoxPhase, BoxOpens >>
  <2>1. UNCHANGED << alive, obj >>
    BY <1>8 DEF EditState, memory
  <2>2. QED
    BY <2>1, BoxesStutter
<1>9. QED
  BY <1>1, <1>2, <1>3, <1>4, <1>5, <1>6, <1>7, <1>8 DEF Next, vars

\* Every object a process holds goes blind, frozen, opened once, judged, with
\* no way back, whatever crashes, reloads and edits happen around it.
THEOREM ImplementsOneShotBoxes == Spec => ObjectsAreOneShot
<1>1. Init => Boxes!Init
  BY DEF Init, Boxes!Init, BoxPhase, BoxOpens
<1>2. IInv /\ IInv' /\ [Next]_vars => [Boxes!Next]_<< BoxPhase, BoxOpens >>
  BY BoxesNext
<1>3. QED
  BY <1>1, <1>2, Invariance, PTL DEF Spec, ObjectsAreOneShot, Boxes!Spec
=============================================================================
