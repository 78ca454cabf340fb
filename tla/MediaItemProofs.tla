-------------------------- MODULE MediaItemProofs ---------------------------
(***************************************************************************)
(* What ApplyStage, BumpItemCycle and SetItemError do to an item whose     *)
(* pointer is right: they leave it right, keep its history and never take  *)
(* it to an earlier attempt.                                               *)
(***************************************************************************)
EXTENDS MediaItem, TLAPS

\* The pointer is at the top of the current attempt.  Unlike the equation
\* with Furthest, this says so without a choice.
IsTop(it) ==
  /\ it.stage \in EnteredIn(it.hist, it.cycle) \union {"requested"}
  /\ \A t \in EnteredIn(it.hist, it.cycle) : Ordinal[t] <= Ordinal[it.stage]
  /\ \A h \in it.hist : h[1] \in 1..it.cycle

\* The ordinals are numbers, "requested" has the least of them, and no two
\* stages share one.
LEMMA OrdinalFacts ==
  /\ \A s \in StageKeys : Ordinal[s] \in Int /\ Ordinal["requested"] <= Ordinal[s]
  /\ \A s, t \in StageKeys : Ordinal[s] = Ordinal[t] => s = t
BY DEF Ordinal, StageKeys

\* A stage that is at the top is the furthest.
LEMMA TopIsFurthest ==
  ASSUME NEW hist, NEW c,
         NEW s \in EnteredIn(hist, c) \union {"requested"},
         \A t \in EnteredIn(hist, c) : Ordinal[t] <= Ordinal[s]
  PROVE  s = Furthest(hist, c)
<1> DEFINE E == EnteredIn(hist, c)
           F == Furthest(hist, c)
<1>1. E \subseteq StageKeys /\ "requested" \in StageKeys
  BY DEF EnteredIn, StageKeys
<1>2. F \in E \union {"requested"} /\ \A t \in E : Ordinal[t] <= Ordinal[F]
  BY DEF Furthest
<1>3. Ordinal[F] <= Ordinal[s]
  BY <1>1, <1>2, OrdinalFacts
<1>4. Ordinal[s] <= Ordinal[F]
  BY <1>1, <1>2, OrdinalFacts
<1> QED
  BY <1>1, <1>2, <1>3, <1>4, OrdinalFacts

\* A stage recorded in an attempt that has begun.
LEMMA ApplyStageKeepsTop ==
  ASSUME NEW Errs, NEW it \in Item(Errs), IsTop(it),
         NEW c \in 1..it.cycle, NEW s \in StageKeys
  PROVE  /\ ApplyStage(it, c, s) \in Item(Errs)
         /\ ApplyStage(it, c, s).cycle = it.cycle
         /\ ApplyStage(it, c, s).err = it.err
         /\ ApplyStage(it, c, s).hist = it.hist \union {<<c, s>>}
         /\ IsTop(ApplyStage(it, c, s))
<1> DEFINE jt == ApplyStage(it, c, s)
<1>1. /\ it.cycle \in Nat \ {0} /\ it.stage \in StageKeys
      /\ it.hist \in SUBSET (Nat \X StageKeys) /\ it.err \in Errs
  BY DEF Item
<1>2. c \in Nat /\ ~(it.cycle < c)
  BY <1>1
<1>3. jt = [it EXCEPT !.hist  = @ \union {<<c, s>>},
                      !.cycle = @,
                      !.stage = IF it.cycle = c /\ Ordinal[it.stage] < Ordinal[s]
                                THEN s ELSE @]
  BY <1>1, <1>2 DEF ApplyStage, Ahead, Item
<1> DEFINE S == IF it.cycle = c /\ Ordinal[it.stage] < Ordinal[s]
                THEN s ELSE it.stage
           H == it.hist \union {<<c, s>>}
<1>a. S \in StageKeys /\ H \in SUBSET (Nat \X StageKeys)
  BY <1>1, <1>2
<1>b. jt = [cycle |-> it.cycle, stage |-> S, hist |-> H, err |-> it.err]
  BY <1>3 DEF Item
<1> HIDE DEF S, H
<1>c. jt \in Item(Errs)
  BY <1>1, <1>a, <1>b DEF Item
<1>d. jt.cycle = it.cycle /\ jt.err = it.err /\ jt.hist = H /\ jt.stage = S
  BY <1>b
<1>4. /\ jt.cycle = it.cycle /\ jt.err = it.err
      /\ jt.hist = it.hist \union {<<c, s>>}
      /\ jt.stage = IF it.cycle = c /\ Ordinal[it.stage] < Ordinal[s]
                    THEN s ELSE it.stage
      /\ jt \in Item(Errs)
  BY <1>c, <1>d DEF S, H
<1>5. EnteredIn(jt.hist, jt.cycle) =
        EnteredIn(it.hist, it.cycle) \union (IF it.cycle = c THEN {s} ELSE {})
  BY <1>2, <1>4 DEF EnteredIn
<1>6. IsTop(jt)
  BY <1>1, <1>2, <1>4, <1>5, OrdinalFacts DEF IsTop, EnteredIn
<1> QED
  BY <1>4, <1>6

\* A new attempt.
LEMMA BumpKeepsTop ==
  ASSUME NEW Errs, NEW it \in Item(Errs), NoError \in Errs, IsTop(it)
  PROVE  /\ BumpItemCycle(it) \in Item(Errs)
         /\ BumpItemCycle(it).cycle = it.cycle + 1
         /\ BumpItemCycle(it).hist = it.hist
         /\ IsTop(BumpItemCycle(it))
<1> DEFINE jt == BumpItemCycle(it)
<1>1. /\ it.cycle \in Nat \ {0} /\ it.stage \in StageKeys
      /\ it.hist \in SUBSET (Nat \X StageKeys)
  BY DEF Item
<1>a. jt = [cycle |-> it.cycle + 1, stage |-> "requested",
            hist |-> it.hist, err |-> NoError]
  <2>1. it = [cycle |-> it.cycle, stage |-> it.stage,
              hist |-> it.hist, err |-> it.err]
    BY DEF Item
  <2>2. jt = [it EXCEPT !.cycle = it.cycle + 1, !.stage = "requested",
                        !.err = NoError]
    BY DEF BumpItemCycle
  <2> HIDE DEF jt
  <2> QED
    BY <2>1, <2>2
<1>b. it.cycle + 1 \in Nat \ {0} /\ "requested" \in StageKeys
  BY <1>1 DEF StageKeys
<1>2. /\ jt \in Item(Errs) /\ jt.cycle = it.cycle + 1 /\ jt.hist = it.hist
      /\ jt.stage = "requested"
  BY <1>1, <1>a, <1>b DEF Item
<1>3. EnteredIn(jt.hist, jt.cycle) = {}
  BY <1>1, <1>2 DEF EnteredIn, IsTop
<1> QED
  BY <1>1, <1>2, <1>3 DEF IsTop

\* An error.
LEMMA SetErrorKeepsTop ==
  ASSUME NEW Errs, NEW it \in Item(Errs), NEW e \in Errs, IsTop(it)
  PROVE  /\ SetItemError(it, e) \in Item(Errs)
         /\ SetItemError(it, e).cycle = it.cycle
         /\ SetItemError(it, e).hist = it.hist
         /\ IsTop(SetItemError(it, e))
<1>1. /\ SetItemError(it, e) \in Item(Errs)
      /\ SetItemError(it, e).cycle = it.cycle
      /\ SetItemError(it, e).hist = it.hist
      /\ SetItemError(it, e).stage = it.stage
  BY DEF SetItemError, Item
<1> QED
  BY <1>1 DEF IsTop

\* A stage that is on record already changes nothing when it comes again.
LEMMA ApplyStageAgain ==
  ASSUME NEW Errs, NEW it \in Item(Errs), IsTop(it),
         NEW c \in 1..it.cycle, NEW s \in StageKeys, <<c, s>> \in it.hist
  PROVE  ApplyStage(it, c, s) = it
<1>1. it.cycle \in Nat /\ it.stage \in StageKeys /\ c \in Nat
  BY DEF Item
<1>2. it.cycle = c => Ordinal[s] <= Ordinal[it.stage]
  BY DEF IsTop, EnteredIn
<1>3. ~Ahead(it, c, s)
  BY <1>1, <1>2, OrdinalFacts DEF Ahead
<1>4. it.hist \union {<<c, s>>} = it.hist
  OBVIOUS
<1>5. it = [cycle |-> it.cycle, stage |-> it.stage, hist |-> it.hist, err |-> it.err]
  BY DEF Item
<1>6. ApplyStage(it, c, s) = [it EXCEPT !.hist = it.hist, !.cycle = it.cycle,
                                        !.stage = it.stage]
  BY <1>3, <1>4 DEF ApplyStage
<1> QED
  BY <1>5, <1>6
=============================================================================
