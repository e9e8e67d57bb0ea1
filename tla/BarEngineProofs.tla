--------------------------- MODULE BarEngineProofs ---------------------------
(***************************************************************************)
(* Theorems about BarEngine and, in the second part, about EaParity, the   *)
(* exported EA beside it: for every history length, risk block, lookback,  *)
(* warm-up, preloaded history and set of signal rows.                      *)
(*                                                                         *)
(* The inductive invariant of the engine ties the three gates of the loop  *)
(* together: the cooldown bar covers every closed trade, the pending entry *)
(* is exactly what the bar before asked for, and an open position is       *)
(* younger than max_bars whenever a bar opens.                             *)
(*                                                                         *)
(* Beside it the EA needs its clock (one ahead of Tier A's bar once the    *)
(* bar has opened) and what a pending direction means: the row two new     *)
(* bars back asks for it.                                                  *)
(***************************************************************************)
EXTENDS EaParity, SequenceTheorems, TLAPS

\* cooldown_until is the latest bar to which a closed trade reaches with its
\* cooldown, and the trades closed before the bar now managed.
CooldownCovers ==
  /\ \A t \in Range(trades) :
       /\ t.exit + Cooldown <= cooldown_until
       /\ IF step \in {"open", "manage"} THEN t.exit < bar ELSE t.exit <= bar
  /\ cooldown_until # -1 =>
       \E t \in Range(trades) : t.exit + Cooldown = cooldown_until

\* Between bars the pending entry is what the last close asked for; at any
\* other step there is none.
PendingIsAsked ==
  /\ step # "open" => pending_dir = "none"
  /\ pending_dir # "none" => bar > 0 /\ pending_signal_bar = bar - 1
  /\ step = "open" /\ bar = 0 => pending_dir = "none"
  /\ step = "open" /\ bar > 0 =>
       pending_dir = IF pos = NoPosition /\ bar - 1 >= cooldown_until
                     THEN Wanted(policy[bar - 1]) ELSE "none"

\* The open position: entered after every cooldown, and due to close in time.
PositionIsYoung ==
  pos # NoPosition =>
    /\ pos.entry <= bar
    /\ \A t \in Range(trades) : pos.entry > t.exit + Cooldown
    /\ step = "open" => pos.entry < bar
    /\ bar - pos.entry <= MaxBars
    /\ step = "close" => bar - pos.entry < MaxBars /\ bar < NBars - 1
    /\ step # "done"

\* TradesAreSeparated without what it says of the open position.
TradesApart ==
  \A k \in DOMAIN trades :
    /\ trades[k].exit \in trades[k].entry .. trades[k].entry + MaxBars
    /\ trades[k].reason = "max_bars" => trades[k].exit = trades[k].entry + MaxBars
    /\ trades[k].reason = "end_of_data" => trades[k].exit = NBars - 1
    /\ k > 1 => trades[k].entry > trades[k - 1].exit + Cooldown

LastStep == step = "done" => bar = NBars - 1

IInv ==
  /\ EngineTypeOK
  /\ CooldownCovers
  /\ PendingIsAsked
  /\ PositionIsYoung
  /\ TradesApart
  /\ EntriesAreExactlyDue
  /\ LastStep

-----------------------------------------------------------------------------
LEMMA Constants ==
  /\ NBars \in Int /\ NBars >= 1
  /\ MaxBars \in Int /\ MaxBars >= 1
  /\ Cooldown \in Int /\ Cooldown >= 0
  /\ Bars = 0 .. NBars - 1
BY HistoryAssumption, RiskAssumption DEF Bars

\* What a row asks for is a direction or nothing.
LEMMA WantedType ==
  ASSUME NEW row PROVE Wanted(row) \in Directions \cup {"none"}
BY DEF Wanted, Directions

LEMMA PositionsAreOpen ==
  /\ NoPosition \notin Positions
  /\ NoPosition.direction = "none"
  /\ "none" \notin Directions
BY DEF NoPosition, Positions, Directions

\* The range of a sequence with one more element.
LEMMA RangeAppend ==
  ASSUME NEW S, NEW s \in Seq(S), NEW e \in S
  PROVE  Range(Append(s, e)) = Range(s) \cup {e}
<1>1. /\ DOMAIN s = 1 .. Len(s) /\ Len(s) \in Nat
      /\ DOMAIN Append(s, e) = 1 .. Len(s) + 1
      /\ \A k \in 1 .. Len(s) : Append(s, e)[k] = s[k]
      /\ Append(s, e)[Len(s) + 1] = e
  OBVIOUS
<1>2. Range(Append(s, e)) \subseteq Range(s) \cup {e}
  <2> SUFFICES ASSUME NEW k \in 1 .. Len(s) + 1
               PROVE  Append(s, e)[k] \in Range(s) \cup {e}
    BY <1>1 DEF Range
  <2>1. CASE k \in 1 .. Len(s)
    BY <1>1, <2>1 DEF Range
  <2>2. CASE k = Len(s) + 1
    BY <1>1, <2>2
  <2> QED BY <2>1, <2>2, <1>1
<1>3. Range(s) \cup {e} \subseteq Range(Append(s, e))
  <2>1. Len(s) + 1 \in DOMAIN Append(s, e) /\ \A k \in DOMAIN s : k \in DOMAIN Append(s, e)
    BY <1>1
  <2>2. e \in Range(Append(s, e))
    BY <1>1, <2>1 DEF Range
  <2>3. \A k \in DOMAIN s : s[k] \in Range(Append(s, e))
    BY <1>1, <2>1 DEF Range
  <2> QED BY <2>2, <2>3 DEF Range
<1> QED BY <1>2, <1>3

LEMMA RangeTyped ==
  ASSUME NEW S, NEW s \in Seq(S) PROVE Range(s) \subseteq S
BY DEF Range

LEMMA EmptyRange == Range(<< >>) = {}
BY DEF Range

-----------------------------------------------------------------------------
LEMMA InitIInv == EngineInit => IInv
<1> SUFFICES ASSUME EngineInit PROVE IInv
  OBVIOUS
<1> USE DEF EngineInit
<1>1. EngineTypeOK
  BY Constants DEF EngineTypeOK
<1>2. CooldownCovers
  BY EmptyRange DEF CooldownCovers
<1>3. PendingIsAsked /\ PositionIsYoung /\ TradesApart /\ LastStep
  BY DEF PendingIsAsked, PositionIsYoung, TradesApart, LastStep
<1>4. Attempts = {}
  BY EmptyRange DEF Attempts
<1>5. DueEntries = {}
  BY Constants DEF DueEntries
<1> QED BY <1>1, <1>2, <1>3, <1>4, <1>5 DEF IInv, EntriesAreExactlyDue

-----------------------------------------------------------------------------
\* What the invariants say of numbers, for the arithmetic below.
LEMMA Numbers ==
  ASSUME EngineTypeOK
  PROVE  /\ bar \in Int /\ 0 <= bar /\ bar < NBars
         /\ cooldown_until \in Int /\ pending_signal_bar \in Int
         /\ pos # NoPosition => pos \in Positions /\ pos.entry \in Int /\ 0 <= pos.entry
         /\ \A t \in Range(trades) :
              t \in Trades /\ t.entry \in Int /\ t.exit \in Int /\ 0 <= t.entry /\ 0 <= t.exit
<1>1. Range(trades) \subseteq Trades
  BY RangeTyped DEF EngineTypeOK
<1> QED BY <1>1, Constants DEF EngineTypeOK, Positions, Trades

\* An entry that is pending at an open is due: the gates of the open step
\* never drop one.
LEMMA PendingIsDue ==
  ASSUME IInv, step = "open", pending_dir # "none" PROVE EntryDue
<1>1. bar > 0 /\ pos = NoPosition /\ bar - 1 >= cooldown_until
  BY DEF IInv, PendingIsAsked
<1> QED BY <1>1, Numbers, SMT DEF IInv, EntryDue

\* The bars that are judged once bar has opened, apart from the last.
LEMMA JudgedAtOpen ==
  ASSUME IInv, step = "open", Opened, NEW c \in Bars
  PROVE  /\ (c + 1 < bar' \/ (c + 1 = bar' /\ step' # "open")) <=>
               ((c + 1 < bar \/ (c + 1 = bar /\ step # "open")) \/ c + 1 = bar)
         /\ RestedAtClose(c)' <=> RestedAtClose(c)
<1> QED BY Numbers, Constants DEF IInv, Opened, RestedAtClose

LEMMA OpenTypes ==
  ASSUME IInv, Enter \/ SkipEntry \/ NoEntry PROVE EngineTypeOK'
<1>1. EngineTypeOK
  BY DEF IInv
<1>2. Opened /\ step = "open"
  BY DEF Enter, SkipEntry, NoEntry, Opened
<1>3. pos' \in Positions \cup {NoPosition}
  <2>1. CASE Enter
    <3>1. pending_dir \in Directions
      BY <1>1, <2>1 DEF EngineTypeOK, Enter, EntryDue
    <3> QED BY <3>1, <1>1, <2>1 DEF Enter, Positions, EngineTypeOK
  <2>2. CASE SkipEntry \/ NoEntry
    BY <1>1, <2>2 DEF SkipEntry, NoEntry, EngineTypeOK
  <2> QED BY <2>1, <2>2
<1>4. skipped' \in Seq(Skips)
  <2>1. CASE SkipEntry
    <3>1. pending_dir \in Directions
      BY <1>1, <2>1 DEF EngineTypeOK, SkipEntry, EntryDue
    <3> DEFINE e == [bar |-> bar, direction |-> pending_dir,
                     reason |-> IF policy[pending_signal_bar].atr THEN "no_lots"
                                ELSE "atr_invalid"]
    <3>2. e \in Skips
      BY <3>1, <1>1 DEF Skips, EngineTypeOK
    <3>3. skipped' = Append(skipped, e)
      BY <2>1 DEF SkipEntry
    <3> HIDE DEF e
    <3> QED BY <3>2, <3>3, <1>1 DEF EngineTypeOK
  <2>2. CASE Enter \/ NoEntry
    BY <1>1, <2>2 DEF Enter, NoEntry, EngineTypeOK
  <2> QED BY <2>1, <2>2
<1> QED BY <1>1, <1>2, <1>3, <1>4 DEF EngineTypeOK, Opened

\* Attempts grows by the pending entry, if there is one.
LEMMA OpenAttempts ==
  ASSUME IInv, Enter \/ SkipEntry \/ NoEntry
  PROVE  Attempts' = Attempts \cup
           (IF pending_dir # "none" THEN {<< bar, pending_dir >>} ELSE {})
<1>1. Opened /\ step = "open" /\ trades' = trades
  BY DEF Enter, SkipEntry, NoEntry, Opened
<1>2. CASE Enter
  <2>1. /\ pending_dir # "none" /\ pos = NoPosition /\ skipped' = skipped
        /\ pos' = [direction |-> pending_dir, entry |-> bar]
    BY <1>2 DEF Enter, EntryDue
  <2>2. pos' # NoPosition /\ pos'.entry = bar /\ pos'.direction = pending_dir
    BY <2>1 DEF NoPosition
  <2> QED BY <1>1, <2>1, <2>2 DEF Attempts
<1>3. CASE SkipEntry
  <2> DEFINE e == [bar |-> bar, direction |-> pending_dir,
                   reason |-> IF policy[pending_signal_bar].atr THEN "no_lots"
                              ELSE "atr_invalid"]
  <2>1. /\ pending_dir # "none" /\ pos' = pos /\ skipped' = Append(skipped, e)
        /\ e.bar = bar /\ e.direction = pending_dir
    BY <1>3 DEF SkipEntry, EntryDue
  <2>2. skipped \in Seq(Skips) /\ e \in Skips
    BY <2>1 DEF IInv, EngineTypeOK, Skips
  <2> HIDE DEF e
  <2>3. Range(skipped') = Range(skipped) \cup {e}
    BY <2>1, <2>2, RangeAppend
  <2>4. { << s.bar, s.direction >> : s \in Range(skipped') } =
          { << s.bar, s.direction >> : s \in Range(skipped) } \cup {<< bar, pending_dir >>}
    BY <2>1, <2>3
  <2> QED BY <1>1, <2>1, <2>4 DEF Attempts
<1>4. CASE NoEntry
  <2>1. pending_dir = "none"
    BY <1>1, <1>4, PendingIsDue DEF NoEntry
  <2> QED BY <1>1, <1>4, <2>1 DEF NoEntry, Attempts
<1> QED BY <1>2, <1>3, <1>4

\* DueEntries grows by the same entry: the bar before is judged for the first
\* time, and the gates of its close were the ones its judgement asks about.
LEMMA OpenDue ==
  ASSUME IInv, Enter \/ SkipEntry \/ NoEntry
  PROVE  DueEntries' = DueEntries \cup
           (IF pending_dir # "none" THEN {<< bar, pending_dir >>} ELSE {})
<1> DEFINE Judged(c) == /\ c + 1 < bar \/ (c + 1 = bar /\ step # "open")
                        /\ Wanted(policy[c]) # "none"
                        /\ FlatAtClose(c)
                        /\ RestedAtClose(c)
<1>1. Opened /\ step = "open" /\ trades' = trades /\ policy' = policy /\ bar' = bar
  BY DEF Enter, SkipEntry, NoEntry, Opened
<1>2. pos' = pos \/ (pos = NoPosition /\ pos'.entry = bar)
  BY DEF Enter, SkipEntry, NoEntry, EntryDue
<1>3. ASSUME NEW c \in Bars, c + 1 # bar PROVE Judged(c)' <=> Judged(c)
  <2>1. c + 1 < bar => (FlatAtClose(c)' <=> FlatAtClose(c))
    BY <1>1, <1>2, Numbers, Constants DEF IInv, FlatAtClose
  <2> QED BY <1>1, <1>3, <2>1, JudgedAtOpen
<1>4. ASSUME NEW c \in Bars, c + 1 = bar
      PROVE  /\ ~Judged(c)
             /\ Judged(c)' <=> pending_dir # "none"
             /\ pending_dir # "none" => pending_dir = Wanted(policy[c])
  <2>1. bar > 0 /\ c = bar - 1 /\ c \in Int
    BY <1>4, Constants, Numbers DEF IInv
  <2>2. pending_dir = IF pos = NoPosition /\ bar - 1 >= cooldown_until
                      THEN Wanted(policy[bar - 1]) ELSE "none"
    BY <1>1, <2>1 DEF IInv, PendingIsAsked
  <2>3. FlatAtClose(c)' <=> pos = NoPosition
    <3>1. \A t \in Range(trades) : t.exit <= c
      BY <1>1, <2>1, Numbers DEF IInv, CooldownCovers
    <3>2. pos # NoPosition => pos' = pos /\ pos.entry <= c
      BY <1>1, <1>2, <2>1, Numbers DEF IInv, PositionIsYoung
    <3>3. pos = NoPosition => (pos' # NoPosition => c < pos'.entry)
      BY <1>2, <2>1, Numbers DEF IInv
    <3> QED BY <1>1, <2>1, <3>1, <3>2, <3>3, Numbers DEF IInv, FlatAtClose
  <2>4. RestedAtClose(c)' <=> bar - 1 >= cooldown_until
    <3>1. \A t \in Range(trades) : t.exit <= c
      BY <1>1, <2>1, Numbers DEF IInv, CooldownCovers
    <3>2. bar - 1 >= cooldown_until => \A t \in Range(trades) : t.exit + Cooldown <= c
      BY <2>1, Numbers, Constants DEF IInv, CooldownCovers
    <3>3. ~(bar - 1 >= cooldown_until) => \E t \in Range(trades) : ~(t.exit + Cooldown <= c)
      <4>1. ASSUME ~(bar - 1 >= cooldown_until) PROVE cooldown_until # -1
        BY <4>1, <2>1, Numbers DEF IInv
      <4> QED BY <4>1, <2>1, Numbers, Constants DEF IInv, CooldownCovers
    <3> QED BY <1>1, <3>1, <3>2, <3>3 DEF RestedAtClose
  <2>5. ~(c + 1 < bar) /\ step' # "open" /\ c + 1 = bar'
    BY <1>1, <1>4, <2>1, Numbers DEF IInv, Opened
  <2>6. Judged(c)' <=> Wanted(policy[c]) # "none" /\ pos = NoPosition /\ bar - 1 >= cooldown_until
    BY <1>1, <2>3, <2>4, <2>5
  <2>7. ~Judged(c)
    BY <1>1, <2>5
  <2> QED BY <2>1, <2>2, <2>6, <2>7
<1>5. DueEntries = { << b + 1, Wanted(policy[b]) >> : b \in { c \in Bars : Judged(c) } }
  BY DEF DueEntries
<1>6. DueEntries' = { << b + 1, Wanted(policy[b]) >> : b \in { c \in Bars : Judged(c)' } }
  BY <1>1 DEF DueEntries
<1> HIDE DEF Judged
<1>7. CASE pending_dir = "none"
  <2>1. \A c \in Bars : Judged(c)' <=> Judged(c)
    BY <1>3, <1>4, <1>7
  <2> QED BY <1>5, <1>6, <1>7, <2>1
<1>8. CASE pending_dir # "none"
  <2>1. PICK p \in Bars : p + 1 = bar
    <3>1. bar > 0
      BY <1>8 DEF IInv, PendingIsAsked
    <3>2. bar - 1 \in Bars /\ (bar - 1) + 1 = bar
      BY <3>1, Numbers, Constants DEF IInv
    <3> QED BY <3>2
  <2>2. \A c \in Bars : c + 1 = bar => c = p
    BY <2>1, Constants
  <2>3. \A c \in Bars : Judged(c)' <=> Judged(c) \/ c = p
    BY <1>3, <1>4, <1>8, <2>1, <2>2
  <2>4. << p + 1, Wanted(policy[p]) >> = << bar, pending_dir >>
    BY <1>4, <1>8, <2>1
  <2>5. { c \in Bars : Judged(c)' } = { c \in Bars : Judged(c) } \cup {p}
    BY <2>1, <2>3
  <2>6. DueEntries' = DueEntries \cup {<< p + 1, Wanted(policy[p]) >>}
    BY <1>5, <1>6, <2>5
  <2> QED BY <1>8, <2>4, <2>6
<1> QED BY <1>7, <1>8

LEMMA OpenIInv ==
  ASSUME IInv, Enter \/ SkipEntry \/ NoEntry PROVE IInv'
<1>1. Opened /\ step = "open" /\ step' = "manage" /\ trades' = trades /\ bar' = bar
      /\ pending_dir' = "none" /\ cooldown_until' = cooldown_until /\ policy' = policy
  BY DEF Enter, SkipEntry, NoEntry, Opened
<1>2. EngineTypeOK'
  BY OpenTypes
<1>3. CooldownCovers'
  BY <1>1 DEF IInv, CooldownCovers
<1>4. PendingIsAsked'
  BY <1>1 DEF PendingIsAsked
<1>5. PositionIsYoung'
  <2>1. CASE Enter
    <3>1. /\ bar > cooldown_until /\ pos'.entry = bar
      BY <2>1 DEF Enter, EntryDue
    <3>2. \A t \in Range(trades) : bar > t.exit + Cooldown
      BY <3>1, Numbers, Constants DEF IInv, CooldownCovers
    <3>3. bar - bar <= MaxBars /\ bar <= bar
      BY Numbers, Constants DEF IInv
    <3> QED BY <1>1, <3>1, <3>2, <3>3 DEF PositionIsYoung
  <2>2. CASE SkipEntry \/ NoEntry
    BY <1>1, <2>2 DEF IInv, PositionIsYoung, SkipEntry, NoEntry
  <2> QED BY <2>1, <2>2
<1>6. TradesApart'
  BY <1>1 DEF IInv, TradesApart
<1>7. EntriesAreExactlyDue'
  BY OpenAttempts, OpenDue DEF IInv, EntriesAreExactlyDue
<1>8. LastStep'
  BY <1>1 DEF LastStep
<1> QED BY <1>2, <1>3, <1>4, <1>5, <1>6, <1>7, <1>8 DEF IInv

-----------------------------------------------------------------------------
LEMMA HoldIInv ==
  ASSUME IInv, Hold PROVE IInv'
<1>1. /\ step = "manage" /\ step' = "close" /\ trades' = trades /\ bar' = bar
      /\ pending_dir' = pending_dir /\ cooldown_until' = cooldown_until
      /\ policy' = policy /\ pos' = pos /\ skipped' = skipped
      /\ pending_signal_bar' = pending_signal_bar
      /\ pos = NoPosition \/ ~MustExit
  BY DEF Hold, Managed
<1>2. EngineTypeOK'
  BY <1>1 DEF IInv, EngineTypeOK
<1>3. CooldownCovers'
  BY <1>1, Numbers DEF IInv, CooldownCovers
<1>4. PendingIsAsked'
  BY <1>1 DEF IInv, PendingIsAsked
<1>5. PositionIsYoung'
  <2> SUFFICES ASSUME pos # NoPosition PROVE PositionIsYoung'
    BY <1>1 DEF PositionIsYoung
  <2>1. ~(bar - pos.entry >= MaxBars) /\ bar # NBars - 1
    BY <1>1 DEF MustExit, TimeIsUp, IsLastBar
  <2>2. bar - pos.entry < MaxBars /\ bar < NBars - 1
    BY <2>1, Numbers, Constants DEF IInv
  <2> QED BY <1>1, <2>2 DEF IInv, PositionIsYoung
<1>6. TradesApart'
  BY <1>1 DEF IInv, TradesApart
<1>7. EntriesAreExactlyDue'
  <2>1. Attempts' = Attempts
    BY <1>1 DEF Attempts
  <2>2. DueEntries' = DueEntries
    BY <1>1 DEF DueEntries, FlatAtClose, RestedAtClose
  <2> QED BY <2>1, <2>2 DEF IInv, EntriesAreExactlyDue
<1>8. LastStep'
  BY <1>1 DEF LastStep
<1> QED BY <1>2, <1>3, <1>4, <1>5, <1>6, <1>7, <1>8 DEF IInv

-----------------------------------------------------------------------------
\* The trade that an exit appends.
LEMMA ExitTrade ==
  ASSUME IInv, Exit
  PROVE  \E t \in Trades :
           /\ t.entry = pos.entry /\ t.exit = bar /\ t.direction = pos.direction
           /\ t.reason \in ExitReasons
           /\ trades' = Append(trades, t)
           /\ trades \in Seq(Trades) /\ trades' \in Seq(Trades)
           /\ Range(trades') = Range(trades) \cup {t}
<1>1. PICK reason \in ExitReasons :
        trades' = Append(trades, [direction |-> pos.direction, entry |-> pos.entry,
                                  exit |-> bar, reason |-> reason])
  BY DEF Exit
<1> DEFINE t == [direction |-> pos.direction, entry |-> pos.entry,
                 exit |-> bar, reason |-> reason]
<1>2. pos \in Positions
  BY DEF IInv, EngineTypeOK, Exit
<1>3. reason \in {"stop", "max_bars", "end_of_data"}
  BY DEF ExitReasons
<1>4. t \in Trades
  BY <1>2, <1>3 DEF Trades, Positions, IInv, EngineTypeOK
<1>5. /\ t.entry = pos.entry /\ t.exit = bar /\ t.direction = pos.direction
      /\ t.reason \in ExitReasons /\ trades' = Append(trades, t)
  BY <1>1
<1>6. trades \in Seq(Trades)
  BY DEF IInv, EngineTypeOK
<1> HIDE DEF t
<1>7. trades' \in Seq(Trades)
  BY <1>4, <1>5, <1>6
<1>8. Range(trades') = Range(trades) \cup {t}
  BY <1>4, <1>5, <1>6, RangeAppend
<1> QED BY <1>4, <1>5, <1>6, <1>7, <1>8

LEMMA ExitIInv ==
  ASSUME IInv, Exit PROVE IInv'
<1>1. /\ step = "manage" /\ step' = "close" /\ bar' = bar
      /\ pending_dir' = pending_dir /\ cooldown_until' = bar + Cooldown
      /\ policy' = policy /\ pos' = NoPosition /\ pos # NoPosition /\ skipped' = skipped
      /\ pending_signal_bar' = pending_signal_bar
  BY DEF Exit, Managed
<1>2. PICK t \in Trades :
           /\ t.entry = pos.entry /\ t.exit = bar /\ t.direction = pos.direction
           /\ t.reason \in ExitReasons
           /\ trades' = Append(trades, t)
           /\ trades \in Seq(Trades) /\ trades' \in Seq(Trades)
           /\ Range(trades') = Range(trades) \cup {t}
  BY ExitTrade
<1>3. /\ bar \in Int /\ 0 <= bar /\ bar < NBars /\ pos.entry \in Int
      /\ pos.entry <= bar /\ bar - pos.entry <= MaxBars
      /\ \A u \in Range(trades) : pos.entry > u.exit + Cooldown
      /\ \A u \in Range(trades) : u.exit \in Int /\ u.entry \in Int /\ u.exit < bar
  BY <1>1, Numbers DEF IInv, PositionIsYoung, CooldownCovers
<1>4. EngineTypeOK'
  <2>1. bar + Cooldown \in -1 .. NBars + Cooldown
    BY <1>3, Constants
  <2> QED BY <1>1, <1>2, <2>1 DEF IInv, EngineTypeOK
<1>5. CooldownCovers'
  <2>1. \A u \in Range(trades) : u.exit + Cooldown <= bar + Cooldown /\ u.exit <= bar
    BY <1>3, Constants
  <2>2. t.exit + Cooldown = bar + Cooldown /\ t.exit + Cooldown <= bar + Cooldown /\ t.exit <= bar
    BY <1>2, <1>3, Constants
  <2>3. t \in Range(trades')
    BY <1>2
  <2> QED BY <1>1, <1>2, <2>1, <2>2, <2>3 DEF CooldownCovers
<1>6. PendingIsAsked'
  BY <1>1 DEF IInv, PendingIsAsked
<1>7. PositionIsYoung'
  BY <1>1 DEF PositionIsYoung
<1>8. TradesApart'
  <2>1. /\ Len(trades) \in Nat /\ DOMAIN trades = 1 .. Len(trades)
        /\ DOMAIN trades' = 1 .. Len(trades) + 1
        /\ \A k \in 1 .. Len(trades) : trades'[k] = trades[k]
        /\ trades'[Len(trades) + 1] = t
    BY <1>2
  <2>2. /\ t.exit \in t.entry .. t.entry + MaxBars
        /\ t.reason = "max_bars" => t.exit = t.entry + MaxBars
        /\ t.reason = "end_of_data" => t.exit = NBars - 1
    <3>1. t.reason = "max_bars" => bar - pos.entry >= MaxBars
      BY <1>2 DEF ExitReasons, TimeIsUp
    <3>2. t.reason = "end_of_data" => bar = NBars - 1
      BY <1>2 DEF ExitReasons, IsLastBar
    <3>3. bar \in pos.entry .. pos.entry + MaxBars
      BY <1>3, Constants
    <3>4. bar - pos.entry >= MaxBars => bar = pos.entry + MaxBars
      BY <1>3, Constants
    <3> QED BY <1>2, <3>1, <3>2, <3>3, <3>4
  <2>3. Len(trades) + 1 > 1 => t.entry > trades'[Len(trades) + 1 - 1].exit + Cooldown
    <3> SUFFICES ASSUME Len(trades) >= 1
                 PROVE  t.entry > trades[Len(trades)].exit + Cooldown
      BY <2>1
    <3>1. trades[Len(trades)] \in Range(trades)
      BY <2>1 DEF Range
    <3> QED BY <1>2, <1>3, <3>1
  <2> SUFFICES ASSUME NEW k \in 1 .. Len(trades) + 1
               PROVE  /\ trades'[k].exit \in trades'[k].entry .. trades'[k].entry + MaxBars
                      /\ trades'[k].reason = "max_bars" =>
                           trades'[k].exit = trades'[k].entry + MaxBars
                      /\ trades'[k].reason = "end_of_data" => trades'[k].exit = NBars - 1
                      /\ k > 1 => trades'[k].entry > trades'[k - 1].exit + Cooldown
    BY <2>1 DEF TradesApart
  <2>4. CASE k = Len(trades) + 1
    BY <2>1, <2>2, <2>3, <2>4
  <2>5. CASE k \in 1 .. Len(trades)
    <3>1. trades'[k] = trades[k] /\ (k > 1 => trades'[k - 1] = trades[k - 1])
      BY <2>1, <2>5
    <3> QED BY <2>1, <2>5, <3>1 DEF IInv, TradesApart
  <2> QED BY <2>1, <2>4, <2>5
<1>9. EntriesAreExactlyDue'
  <2>1. Attempts' = Attempts
    <3>1. { << u.entry, u.direction >> : u \in Range(trades') } =
            { << u.entry, u.direction >> : u \in Range(trades) }
              \cup {<< pos.entry, pos.direction >>}
      BY <1>2
    <3> QED BY <1>1, <3>1 DEF Attempts
  <2>2. ASSUME NEW c \in Bars, c + 1 < bar \/ c + 1 = bar
        PROVE  (FlatAtClose(c)' <=> FlatAtClose(c)) /\ (RestedAtClose(c)' <=> RestedAtClose(c))
    <3>1. c \in Int /\ c < bar
      BY <2>2, <1>3, Constants
    <3>2. FlatAtClose(c)' <=> FlatAtClose(c)
      BY <1>1, <1>2, <1>3, <3>1 DEF FlatAtClose
    <3>3. RestedAtClose(c)' <=> RestedAtClose(c)
      BY <1>1, <1>2, <1>3, <3>1 DEF RestedAtClose
    <3> QED BY <3>2, <3>3
  <2>3. DueEntries' = DueEntries
    BY <1>1, <2>2 DEF DueEntries
  <2> QED BY <2>1, <2>3 DEF IInv, EntriesAreExactlyDue
<1>10. LastStep'
  BY <1>1 DEF LastStep
<1> QED BY <1>4, <1>5, <1>6, <1>7, <1>8, <1>9, <1>10 DEF IInv

-----------------------------------------------------------------------------
LEMMA CloseIInv ==
  ASSUME IInv, Close PROVE IInv'
<1>1. /\ step = "close" /\ policy' = policy /\ pos' = pos /\ trades' = trades
      /\ cooldown_until' = cooldown_until /\ skipped' = skipped
      /\ IF bar = NBars - 1 THEN bar' = bar /\ step' = "done"
                            ELSE bar' = bar + 1 /\ step' = "open"
  BY DEF Close, IsLastBar
<1>2. bar \in Int /\ 0 <= bar /\ bar < NBars /\ bar \in Bars
  BY Numbers, Constants DEF IInv
<1>3. pending_dir = "none"
  BY <1>1 DEF IInv, PendingIsAsked
<1> DEFINE Asks == /\ pos = NoPosition /\ bar < NBars - 1 /\ bar >= cooldown_until
                   /\ Wanted(policy[bar]) # "none"
<1>4. /\ Asks => pending_dir' = Wanted(policy[bar]) /\ pending_signal_bar' = bar
      /\ ~Asks => pending_dir' = "none" /\ pending_signal_bar' = pending_signal_bar
  BY <1>3 DEF Close, MayRead
<1>5. EngineTypeOK'
  <2>1. bar' \in Bars /\ step' \in {"open", "manage", "close", "done"}
    BY <1>1, <1>2, Constants
  <2>2. pending_dir' \in Directions \cup {"none"} /\ pending_signal_bar' \in Bars \cup {-1}
    BY <1>2, <1>4, WantedType DEF IInv, EngineTypeOK
  <2> QED BY <1>1, <2>1, <2>2 DEF IInv, EngineTypeOK
<1>6. CooldownCovers'
  BY <1>1, <1>2, Numbers DEF IInv, CooldownCovers
<1>7. CASE bar = NBars - 1
  <2>1. bar' = bar /\ step' = "done" /\ pending_dir' = "none" /\ pos = NoPosition
    BY <1>1, <1>2, <1>4, <1>7, Constants DEF IInv, PositionIsYoung
  <2>2. PendingIsAsked' /\ PositionIsYoung' /\ LastStep'
    BY <1>1, <1>7, <2>1 DEF PendingIsAsked, PositionIsYoung, LastStep
  <2>3. Attempts' = Attempts /\ DueEntries' = DueEntries
    BY <1>1, <2>1 DEF Attempts, DueEntries, FlatAtClose, RestedAtClose
  <2>4. TradesApart' /\ EntriesAreExactlyDue'
    BY <1>1, <2>3 DEF IInv, TradesApart, EntriesAreExactlyDue
  <2> QED BY <1>5, <1>6, <2>2, <2>4 DEF IInv
<1>8. CASE bar # NBars - 1
  <2>1. bar' = bar + 1 /\ step' = "open" /\ bar' > 0 /\ bar' - 1 = bar /\ bar < NBars - 1
    BY <1>1, <1>2, <1>8, Constants
  <2>2. PendingIsAsked'
    <3>1. pending_dir' # "none" => pending_signal_bar' = bar' - 1
      BY <1>4, <2>1
    <3>2. pending_dir' = IF pos' = NoPosition /\ bar' - 1 >= cooldown_until'
                         THEN Wanted(policy'[bar' - 1]) ELSE "none"
      BY <1>1, <1>4, <2>1
    <3>3. ~(bar' = 0)
      BY <1>2, <2>1
    <3> QED BY <2>1, <3>1, <3>2, <3>3 DEF PendingIsAsked
  <2>3. PositionIsYoung'
    <3> SUFFICES ASSUME pos # NoPosition PROVE PositionIsYoung'
      BY <1>1 DEF PositionIsYoung
    <3>1. pos.entry \in Int /\ pos.entry <= bar /\ bar - pos.entry < MaxBars
      BY <1>1, Numbers DEF IInv, PositionIsYoung
    <3>2. pos.entry <= bar' /\ pos.entry < bar' /\ bar' - pos.entry <= MaxBars
      BY <1>2, <2>1, <3>1, Constants
    <3>3. \A t \in Range(trades) : pos.entry > t.exit + Cooldown
      BY DEF IInv, PositionIsYoung
    <3>4. pos' = pos /\ trades' = trades /\ step' = "open"
      BY <1>1, <2>1
    <3> QED BY <3>2, <3>3, <3>4 DEF PositionIsYoung
  <2>4. LastStep'
    BY <2>1 DEF LastStep
  <2>5. Attempts' = Attempts
    BY <1>1 DEF Attempts
  <2>6. \A c \in Bars : (c + 1 < bar' \/ (c + 1 = bar' /\ step' # "open")) <=>
                        (c + 1 < bar \/ (c + 1 = bar /\ step # "open"))
    BY <1>1, <1>2, <2>1, Constants
  <2>7. DueEntries' = DueEntries
    BY <1>1, <2>6 DEF DueEntries, FlatAtClose, RestedAtClose
  <2>8. TradesApart' /\ EntriesAreExactlyDue'
    BY <1>1, <2>5, <2>7 DEF IInv, TradesApart, EntriesAreExactlyDue
  <2> QED BY <1>5, <1>6, <2>2, <2>3, <2>4, <2>8 DEF IInv
<1> QED BY <1>7, <1>8

-----------------------------------------------------------------------------
LEMMA NextIInv == IInv /\ [EngineNext]_engineVars => IInv'
<1> SUFFICES ASSUME IInv, [EngineNext]_engineVars PROVE IInv'
  OBVIOUS
<1>1. CASE Enter \/ SkipEntry \/ NoEntry
  BY <1>1, OpenIInv
<1>2. CASE Exit
  BY <1>2, ExitIInv
<1>3. CASE Hold
  BY <1>3, HoldIInv
<1>4. CASE Close
  BY <1>4, CloseIInv
<1>5. CASE UNCHANGED engineVars
  BY <1>5 DEF engineVars, IInv, EngineTypeOK, CooldownCovers, PendingIsAsked,
     PositionIsYoung, TradesApart, EntriesAreExactlyDue, LastStep, Attempts,
     DueEntries, FlatAtClose, RestedAtClose
<1> QED BY <1>1, <1>2, <1>3, <1>4, <1>5 DEF EngineNext

LEMMA EngineInvariant == EngineSpec => []IInv
BY InitIInv, NextIInv, PTL DEF EngineSpec

\* Every variable of the engine keeps its type: no bar outside the history is
\* read, whatever the policy (fast_engine.py:131-270).
THEOREM EngineTypeCorrect == EngineSpec => []EngineTypeOK
<1>1. IInv => EngineTypeOK
  BY DEF IInv
<1> QED BY <1>1, EngineInvariant, PTL

\* Entries and skips are exactly those the policy calls for, each at the bar
\* after its signal and in its direction (fast_engine.py:135 and 265).
THEOREM EntriesAlwaysDue == EngineSpec => []EntriesAreExactlyDue
<1>1. IInv => EntriesAreExactlyDue
  BY DEF IInv
<1> QED BY <1>1, EngineInvariant, PTL

\* Trades never touch each other's cooldown, never outlast max_bars, and say
\* truly why they ended (fast_engine.py:135, 212-217 and 253).
THEOREM TradesAlwaysSeparated == EngineSpec => []TradesAreSeparated
<1>1. IInv => TradesAreSeparated
  BY DEF IInv, TradesApart, PositionIsYoung, TradesAreSeparated
<1> QED BY <1>1, EngineInvariant, PTL

\* A finished backtest holds no position and no pending entry
\* (fast_engine.py:215 and 265).
THEOREM AlwaysEndsFlat == EngineSpec => []EndsFlat
<1>1. IInv => EndsFlat
  BY DEF IInv, PositionIsYoung, PendingIsAsked, EndsFlat
<1> QED BY <1>1, EngineInvariant, PTL
-----------------------------------------------------------------------------
(* The exported EA beside Tier A.                                          *)

EaPositions == [direction : Directions, bar : Bars]

FileRows == [direction : Directions, entry : Bars, exit : Bars]

EaClock == g_bar_index = IF step = "open" THEN bar ELSE bar + 1

\* The EA's row b wants direction d and has a valid ATR.
AsksFor(b, d) == b \in EA!EaBars /\ Wanted(rows[b]) = d /\ rows[b].atr

RowsAgree == \A b \in Bars : b >= Lookback => rows[b] = policy[b]

EaPending ==
  g_pending_dir # "none" =>
    g_bar_index >= 1 /\ AsksFor(g_bar_index - 2, g_pending_dir)

EaPosition ==
  position # EA!NoEaPosition =>
    /\ position.bar + 1 <= g_bar_index
    /\ g_entry_bar = position.bar + 1
    /\ position.bar >= 1
    /\ AsksFor(position.bar - 2, position.direction)

EaCooldown ==
  \A t \in Range(trade_file) : t.exit + 1 + Cooldown <= g_cooldown_until_bar

PInv ==
  /\ IInv
  /\ TypeOK
  /\ RowsAgree
  /\ EaClock
  /\ EaPending
  /\ EaPosition
  /\ EaCooldown
  /\ EaRestsAfterTimeExit

-----------------------------------------------------------------------------
\* A step of the composition is a step of Tier A or leaves it alone.
LEMMA ParityStepsEngine == [ParityNext]_parityVars => [EngineNext]_engineVars
BY DEF ParityNext, parityVars, BarOpens, BarPasses, TickFills, TickManages, EngineNext

\* The EA does not disturb Tier A: every behaviour of the composition is one
\* of the engine, so the engine's theorems hold of it.
THEOREM ParityRunsTierA == ParitySpec => EngineSpec
<1>1. ParityInit => EngineInit
  BY DEF ParityInit
<1> QED BY <1>1, ParityStepsEngine, PTL DEF ParitySpec, EngineSpec

-----------------------------------------------------------------------------
LEMMA EaConstants ==
  /\ EA!NoEaPosition = [direction |-> "none", bar |-> -1]
  /\ EA!NoEaPosition \notin EaPositions
  /\ \A p \in EaPositions : p # EA!NoEaPosition /\ EA!Selected(p)
  /\ ~EA!Selected(EA!NoEaPosition)
  /\ \A row : EA!Wanted(row) = Wanted(row)
  /\ EA!EaBars = Bars \cup {-1}
BY PositionsAreOpen DEF EA!NoEaPosition, EaPositions, EA!Selected, EA!Wanted, Wanted,
   EA!EaBars, EA!Bars, Bars

LEMMA EaNumbers ==
  ASSUME PInv
  PROVE  /\ bar \in Int /\ 0 <= bar /\ bar < NBars
         /\ g_bar_index \in Int /\ 0 <= g_bar_index /\ g_bar_index <= NBars
         /\ g_cooldown_until_bar \in Int /\ g_entry_bar \in Int
         /\ position # EA!NoEaPosition => position \in EaPositions /\ position.bar \in Int
         /\ EA!Selected(position) <=> position # EA!NoEaPosition
         /\ trade_file \in Seq(FileRows)
         /\ \A t \in Range(trade_file) : t \in FileRows /\ t.entry \in Int /\ t.exit \in Int
<1>1. TypeOK /\ EngineTypeOK
  BY DEF PInv, TypeOK
<1>2. trade_file \in Seq(FileRows) /\ Range(trade_file) \subseteq FileRows
  BY <1>1, RangeTyped DEF TypeOK, FileRows
<1>3. position \in EaPositions \cup {EA!NoEaPosition}
  BY <1>1 DEF TypeOK, EaPositions
<1>4. /\ position # EA!NoEaPosition => position \in EaPositions /\ position.bar \in Int
      /\ EA!Selected(position) <=> position # EA!NoEaPosition
  BY <1>3, EaConstants, Constants DEF EaPositions
<1>5. \A t \in Range(trade_file) : t \in FileRows /\ t.entry \in Int /\ t.exit \in Int
  BY <1>2, Constants DEF FileRows
<1> QED BY <1>1, <1>2, <1>4, <1>5, Constants DEF TypeOK, EngineTypeOK

LEMMA InitPInv == ParityInit => PInv
<1> SUFFICES ASSUME ParityInit PROVE PInv
  OBVIOUS
<1>1. IInv /\ EngineTypeOK
  BY InitIInv DEF ParityInit, IInv
<1>2. TypeOK
  BY <1>1, Constants DEF ParityInit, EA!EaInit, TypeOK
<1>3. EaClock /\ EaPending /\ EaPosition
  BY DEF ParityInit, EA!EaInit, EngineInit, EaClock, EaPending, EaPosition
<1>5. RowsAgree
  <2>1. PICK early : rows = Seen(early)
    BY DEF ParityInit
  <2> SUFFICES ASSUME NEW b \in Bars, b >= Lookback PROVE rows[b] = policy[b]
    BY DEF RowsAgree
  <2>2. b \in EA!EaBars /\ ~(b < Lookback)
    BY EaConstants, Constants, LookbackAssumption
  <2> QED BY <2>1, <2>2 DEF Seen
<1>4. EaCooldown /\ EaRestsAfterTimeExit
  BY EmptyRange DEF ParityInit, EA!EaInit, EaCooldown, EaRestsAfterTimeExit
<1> QED BY <1>1, <1>2, <1>3, <1>4, <1>5 DEF PInv

-----------------------------------------------------------------------------
\* First tick of a bar.
LEMMA BarOpensPInv ==
  ASSUME PInv, BarOpens PROVE PInv'
<1>1. /\ Enter \/ SkipEntry \/ NoEntry
      /\ step = "open" /\ step' = "manage" /\ bar' = bar /\ policy' = policy
      /\ EA!NewBar
  BY DEF BarOpens, Enter, SkipEntry, NoEntry, Opened
<1>2. IInv' /\ EngineTypeOK'
  BY <1>1, OpenIInv DEF PInv, IInv
<1>3. /\ g_bar_index = bar /\ rows' = rows /\ preloaded' = preloaded /\ g_bar_index < NBars /\ g_bar_index' = g_bar_index + 1
      /\ g_cooldown_until_bar' = g_cooldown_until_bar /\ trade_file' = trade_file
      /\ EA!Execute
      /\ IF EA!MayDecide THEN EA!Decide(rows[EA!EaBar]) ELSE g_pending_dir' = "none"
  BY <1>1 DEF PInv, EaClock, EA!NewBar
<1>4. EaClock'
  BY <1>1, <1>3 DEF EaClock
<1>5. EaCooldown'
  BY <1>3 DEF PInv, EaCooldown
<1>6. /\ EaPosition' /\ EaRestsAfterTimeExit'
      /\ position' \in EaPositions \cup {EA!NoEaPosition} /\ g_entry_bar' \in -1 .. NBars
  <2>1. CASE position' = position /\ g_entry_bar' = g_entry_bar
    <3>1. EaPosition'
      <4> SUFFICES ASSUME position # EA!NoEaPosition PROVE EaPosition'
        BY <2>1 DEF EaPosition
      <4>1. position.bar + 1 <= g_bar_index + 1
        BY EaNumbers DEF PInv, EaPosition
      <4> QED BY <1>1, <1>3, <2>1, <4>1 DEF PInv, EaPosition, AsksFor
    <3>2. EaRestsAfterTimeExit'
      BY <1>3, <2>1 DEF PInv, EaRestsAfterTimeExit
    <3>3. position \in EaPositions \cup {EA!NoEaPosition} /\ g_entry_bar \in -1 .. NBars
      BY DEF PInv, TypeOK, EaPositions
    <3> QED BY <2>1, <3>1, <3>2, <3>3
  <2>2. CASE ~(position' = position /\ g_entry_bar' = g_entry_bar)
    <3>1. /\ g_pending_dir # "none" /\ ~EA!Selected(position)
          /\ g_bar_index + 1 > g_cooldown_until_bar
          /\ position' = [direction |-> g_pending_dir, bar |-> g_bar_index]
          /\ g_entry_bar' = g_bar_index + 1
      <4>1. EA!EaBar' = g_bar_index
        BY <1>3, EaNumbers DEF EA!EaBar
      <4> QED BY <1>3, <2>2, <4>1 DEF EA!Execute, EA!OpenPosition
    <3>2. g_bar_index >= 1 /\ AsksFor(g_bar_index - 2, g_pending_dir)
      BY <3>1 DEF PInv, EaPending
    <3>3. /\ position'.bar = g_bar_index /\ position'.direction = g_pending_dir
      BY <3>1
    <3>4. EaPosition'
      <4>1. g_bar_index + 1 <= g_bar_index'
        BY <1>3, EaNumbers
      <4>2. position'.bar - 2 = g_bar_index - 2 /\ AsksFor(g_bar_index - 2, position'.direction)
        BY <3>2, <3>3
      <4>3. AsksFor(position.bar - 2, position.direction)'
        BY <1>3, <4>2 DEF AsksFor, EA!EaBars, EA!Bars
      <4> QED BY <1>3, <3>1, <3>2, <3>3, <4>1, <4>3 DEF EaPosition
    <3>5. EaRestsAfterTimeExit'
      <4>1. \A t \in Range(trade_file) : g_bar_index > t.exit + Cooldown
        BY <3>1, EaNumbers, Constants DEF PInv, EaCooldown
      <4> QED BY <1>3, <3>3, <4>1 DEF PInv, EaRestsAfterTimeExit
    <3>7. position' \in EaPositions
      <4>1. g_bar_index \in Bars /\ g_pending_dir \in Directions
        BY <1>3, <3>1, EaNumbers, Constants DEF PInv, TypeOK
      <4> QED BY <3>1, <4>1 DEF EaPositions
    <3>8. g_entry_bar' \in -1 .. NBars
      BY <1>3, <3>1, EaNumbers, Constants
    <3> QED BY <3>4, <3>5, <3>7, <3>8
  <2> QED BY <2>1, <2>2
<1>7. EaPending' /\ g_pending_dir' \in Directions \cup {"none"}
  <2>1. CASE EA!MayDecide /\ g_pending_dir' # "none"
    <3>1. EA!EaBar = g_bar_index - 1 /\ EA!Decide(rows[EA!EaBar])
      BY <1>3, <2>1 DEF EA!EaBar
    <3>2. /\ g_bar_index' >= 1 /\ g_bar_index' - 2 = g_bar_index - 1
          /\ g_bar_index - 1 \in EA!EaBars
      BY <1>3, EaNumbers, EaConstants, Constants
    <3>3. g_pending_dir' = Wanted(rows[g_bar_index - 1]) /\ rows[g_bar_index - 1].atr
      BY <2>1, <3>1, EaConstants DEF EA!Decide
    <3>4. AsksFor(g_bar_index - 2, g_pending_dir)'
      BY <1>3, <3>2, <3>3 DEF AsksFor, EA!EaBars, EA!Bars
    <3> QED BY <1>3, <3>2, <3>3, <3>4, WantedType DEF EaPending
  <2>2. CASE g_pending_dir' = "none"
    BY <2>2 DEF EaPending
  <2> QED BY <1>3, <2>1, <2>2
<1>8. TypeOK'
  <2>1. g_bar_index' \in 0 .. NBars
    BY <1>3, EaNumbers, Constants
  <2> QED BY <1>2, <1>3, <1>6, <1>7, <2>1 DEF PInv, TypeOK, EaPositions
<1>9. RowsAgree'
  BY <1>1, <1>3 DEF PInv, RowsAgree
<1> QED BY <1>2, <1>4, <1>5, <1>6, <1>7, <1>8, <1>9 DEF PInv

-----------------------------------------------------------------------------
\* The rest of the bar in Tier A.
LEMMA BarPassesPInv ==
  ASSUME PInv, BarPasses PROVE PInv'
<1>1. /\ Exit \/ Hold \/ Close
      /\ policy' = policy /\ rows' = rows /\ preloaded' = preloaded
      /\ position' = position /\ g_bar_index' = g_bar_index
      /\ g_cooldown_until_bar' = g_cooldown_until_bar /\ g_entry_bar' = g_entry_bar
      /\ g_pending_dir' = g_pending_dir /\ trade_file' = trade_file
  BY DEF BarPasses, eaVars, Exit, Hold, Managed, Close
<1>2. IInv' /\ EngineTypeOK'
  BY <1>1, ExitIInv, HoldIInv, CloseIInv DEF PInv, IInv
<1>3. EaClock'
  <2>1. \/ step = "manage" /\ step' = "close" /\ bar' = bar
        \/ step = "close" /\ step' = "done" /\ bar' = bar
        \/ step = "close" /\ step' = "open" /\ bar' = bar + 1
    BY <1>1 DEF Exit, Hold, Managed, Close
  <2> QED BY <1>1, <2>1 DEF PInv, EaClock
<1>4. TypeOK'
  BY <1>1, <1>2 DEF PInv, TypeOK
<1>5. EaPending' /\ EaPosition' /\ EaCooldown'
  BY <1>1 DEF PInv, EaPending, EaPosition, EaCooldown, AsksFor
<1>6. EaRestsAfterTimeExit' /\ RowsAgree'
  BY <1>1 DEF PInv, EaRestsAfterTimeExit, RowsAgree
<1> QED BY <1>2, <1>3, <1>4, <1>5, <1>6 DEF PInv

\* The broker fills a stop or a target.
LEMMA TickFillsPInv ==
  ASSUME PInv, TickFills PROVE PInv'
<1>1. /\ UNCHANGED engineVars /\ rows' = rows /\ preloaded' = preloaded
      /\ position' = EA!NoEaPosition /\ g_bar_index' = g_bar_index
      /\ g_cooldown_until_bar' = g_cooldown_until_bar /\ g_entry_bar' = g_entry_bar
      /\ g_pending_dir' = g_pending_dir /\ trade_file' = trade_file
  BY DEF TickFills, EA!BrokerStop
<1>2. IInv' /\ EngineTypeOK' /\ policy' = policy /\ bar' = bar /\ step' = step
  BY <1>1, NextIInv DEF PInv, IInv, engineVars
<1>3. TypeOK' /\ EaClock'
  BY <1>1, <1>2 DEF PInv, TypeOK, EaClock
<1>4. EaPending' /\ EaPosition' /\ EaCooldown'
  BY <1>1, <1>2 DEF PInv, EaPending, EaPosition, EaCooldown, AsksFor
<1>5. EaRestsAfterTimeExit' /\ RowsAgree'
  BY <1>1, <1>2 DEF PInv, EaRestsAfterTimeExit, RowsAgree
<1> QED BY <1>2, <1>3, <1>4, <1>5 DEF PInv

\* The EA's time exit on a later tick.
LEMMA TickManagesPInv ==
  ASSUME PInv, TickManages PROVE PInv'
<1> DEFINE row == [direction |-> position.direction,
                   entry |-> position.bar, exit |-> EA!EaBar]
<1>1. /\ UNCHANGED engineVars /\ EA!Selected(position)
      /\ rows' = rows /\ preloaded' = preloaded
      /\ g_bar_index - g_entry_bar >= MaxBars
      /\ position' = EA!NoEaPosition /\ g_bar_index' = g_bar_index
      /\ g_cooldown_until_bar' = g_bar_index + Cooldown /\ g_entry_bar' = g_entry_bar
      /\ g_pending_dir' = g_pending_dir /\ trade_file' = Append(trade_file, row)
  BY DEF TickManages, EA!LaterTick
<1>2. IInv' /\ EngineTypeOK' /\ policy' = policy /\ bar' = bar /\ step' = step
  BY <1>1, NextIInv DEF PInv, IInv, engineVars
<1>3. /\ position \in EaPositions /\ position.bar \in Int /\ g_bar_index \in Int
      /\ position.bar + 1 <= g_bar_index /\ g_entry_bar = position.bar + 1
      /\ 1 <= position.bar /\ g_bar_index <= NBars
      /\ \A t \in Range(trade_file) : position.bar > t.exit + Cooldown
  BY <1>1, EaNumbers DEF PInv, EaPosition, EaRestsAfterTimeExit
<1>4. /\ row \in FileRows /\ row.entry = position.bar
      /\ row.exit = g_bar_index - 1 /\ row.exit >= row.entry + MaxBars
  <2>1. EA!EaBar = g_bar_index - 1 /\ g_bar_index - 1 \in Bars
    BY <1>3, Constants DEF EA!EaBar
  <2>2. g_bar_index - 1 >= position.bar + MaxBars
    BY <1>1, <1>3, Constants
  <2> QED BY <1>3, <2>1, <2>2 DEF FileRows, EaPositions
<1> HIDE DEF row
<1>5. /\ trade_file \in Seq(FileRows) /\ trade_file' \in Seq(FileRows)
      /\ Range(trade_file') = Range(trade_file) \cup {row}
  BY <1>1, <1>4, EaNumbers, RangeAppend
<1>6. EaClock' /\ EaPending' /\ EaPosition' /\ RowsAgree'
  BY <1>1, <1>2 DEF PInv, EaClock, EaPending, EaPosition, RowsAgree, AsksFor
<1>7. EaCooldown'
  <2>1. ASSUME NEW t \in Range(trade_file) PROVE t.exit + 1 + Cooldown <= g_bar_index + Cooldown
    <3>1. t.exit \in Int /\ position.bar > t.exit + Cooldown
      BY <1>3, EaNumbers
    <3>2. Cooldown \in Nat
      BY Constants
    <3> QED BY <1>3, <3>1, <3>2
  <2>2. row.exit + 1 + Cooldown <= g_bar_index + Cooldown
    BY <1>3, <1>4, Constants
  <2> QED BY <1>1, <1>5, <2>1, <2>2 DEF EaCooldown
<1>8. EaRestsAfterTimeExit'
  <2>1. /\ Len(trade_file) \in Nat /\ DOMAIN trade_file = 1 .. Len(trade_file)
        /\ DOMAIN trade_file' = 1 .. Len(trade_file) + 1
        /\ \A k \in 1 .. Len(trade_file) : trade_file'[k] = trade_file[k]
        /\ trade_file'[Len(trade_file) + 1] = row
    BY <1>1, <1>4, <1>5
  <2> SUFFICES ASSUME NEW k \in 1 .. Len(trade_file) + 1
               PROVE  /\ trade_file'[k].exit >= trade_file'[k].entry + MaxBars
                      /\ k > 1 => trade_file'[k].entry > trade_file'[k - 1].exit + Cooldown
    BY <1>1, <2>1 DEF EaRestsAfterTimeExit
  <2>2. CASE k = Len(trade_file) + 1
    <3>1. k > 1 => row.entry > trade_file'[k - 1].exit + Cooldown
      <4> SUFFICES ASSUME Len(trade_file) >= 1
                   PROVE  row.entry > trade_file[Len(trade_file)].exit + Cooldown
        BY <2>1, <2>2
      <4>1. trade_file[Len(trade_file)] \in Range(trade_file)
        BY <2>1 DEF Range
      <4> QED BY <1>3, <1>4, <4>1
    <3> QED BY <1>4, <2>1, <2>2, <3>1
  <2>3. CASE k \in 1 .. Len(trade_file)
    <3>1. trade_file'[k] = trade_file[k] /\ (k > 1 => trade_file'[k - 1] = trade_file[k - 1])
      BY <2>1, <2>3
    <3> QED BY <2>1, <2>3, <3>1 DEF PInv, EaRestsAfterTimeExit
  <2> QED BY <2>1, <2>2, <2>3
<1>9. TypeOK'
  <2>1. g_bar_index + Cooldown \in -1 .. NBars + Cooldown
    BY <1>3, Constants
  <2> QED BY <1>1, <1>2, <1>5, <2>1 DEF PInv, TypeOK, FileRows
<1> QED BY <1>2, <1>6, <1>7, <1>8, <1>9 DEF PInv

-----------------------------------------------------------------------------
LEMMA NextPInv == PInv /\ [ParityNext]_parityVars => PInv'
<1> SUFFICES ASSUME PInv, [ParityNext]_parityVars PROVE PInv'
  OBVIOUS
<1>1. CASE UNCHANGED parityVars
  <2>1. IInv'
    BY <1>1, NextIInv DEF PInv, parityVars
  <2>2. UNCHANGED engineVars /\ UNCHANGED eaVars
    BY <1>1 DEF parityVars
  <2> USE <2>2 DEF engineVars, eaVars
  <2>3. TypeOK' /\ EaClock' /\ EaPending' /\ EaPosition' /\ EaCooldown' /\ EaRestsAfterTimeExit'
    BY DEF PInv, TypeOK, EngineTypeOK, EaClock, EaPending, EaPosition, EaCooldown,
       EaRestsAfterTimeExit, AsksFor
  <2>4. RowsAgree'
    BY DEF PInv, RowsAgree
  <2> QED BY <2>1, <2>3, <2>4 DEF PInv
<1> QED BY <1>1, BarOpensPInv, BarPassesPInv, TickFillsPInv, TickManagesPInv DEF ParityNext

LEMMA ParityInvariant == ParitySpec => []PInv
BY InitPInv, NextPInv, PTL DEF ParitySpec

\* Every variable of Tier A and of the EA keeps its type
\* (fast_engine.py:124-129, exporter.py:272-279).
THEOREM TypeCorrect == ParitySpec => []TypeOK
<1>1. PInv => TypeOK
  BY DEF PInv
<1> QED BY <1>1, ParityInvariant, PTL

\* When the EA holds a position decided on a row that Tier A has too, Tier A
\* attempted the same entry a bar earlier or was kept from it by a trade or a
\* cooldown of its own at that very row, for every preloaded history and
\* whatever the broker rejects or fills (exporter.py:313-334,
\* fast_engine.py:135 and 265).
THEOREM EaAlwaysBehindTierA == ParitySpec => []EaTradesBehindTierA
<1>1. ASSUME PInv PROVE EaTradesBehindTierA
  <2> DEFINE row == position.bar - 2
  <2> SUFFICES ASSUME position # EA!NoEaPosition, row >= Lookback,
                      FlatAtClose(row), RestedAtClose(row)
               PROVE  << row + 1, position.direction >> \in Attempts
    BY DEF EaTradesBehindTierA
  <2>1. /\ position.bar \in Int /\ bar \in Int /\ g_bar_index \in Int
        /\ position.bar < NBars /\ position.direction # "none"
    BY <1>1, EaNumbers, EaConstants, Constants, PositionsAreOpen DEF EaPositions
  <2>2. row \in Bars /\ (row + 1 < bar \/ (row + 1 = bar /\ step # "open"))
    <3>1. position.bar + 1 <= g_bar_index
      BY <1>1 DEF PInv, EaPosition
    <3>2. position.bar <= bar
      BY <1>1, <2>1, <3>1 DEF PInv, EaClock
    <3> QED BY <2>1, <3>2, LookbackAssumption, Constants
  <2>3. Wanted(policy[row]) = position.direction
    BY <1>1, <2>2 DEF PInv, EaPosition, AsksFor, RowsAgree
  <2>4. << row + 1, Wanted(policy[row]) >> \in DueEntries
    BY <2>1, <2>2, <2>3, Zenon DEF DueEntries
  <2> QED BY <1>1, <2>3, <2>4 DEF PInv, IInv, EntriesAreExactlyDue
<1> QED BY <1>1, ParityInvariant, PTL

\* Every position of the EA is two bars younger than the row that asked for
\* it, for every warm-up, preloaded history and cooldown (exporter.py:313-334).
THEOREM EaAlwaysTwoBarsLater == ParitySpec => []EaActsTwoBarsLater
<1>1. PInv => EaActsTwoBarsLater
  BY DEF PInv, EaPosition, EaActsTwoBarsLater, AsksFor
<1> QED BY <1>1, ParityInvariant, PTL

\* The EA's own exits respect max_bars and its cooldown
\* (exporter.py:314, 367 and 384).
THEOREM EaAlwaysRests == ParitySpec => []EaRestsAfterTimeExit
<1>1. PInv => EaRestsAfterTimeExit
  BY DEF PInv
<1> QED BY <1>1, ParityInvariant, PTL
=============================================================================
