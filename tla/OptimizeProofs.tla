--------------------------- MODULE OptimizeProofs ----------------------------
(***************************************************************************)
(* Proof that optimize_and_solve answers right, for any number of          *)
(* objectives, any set of solutions, both searches and all settings.       *)
(***************************************************************************)
EXTENDS Optimize, TLAPS

Before == 1..(current - 1)

TypeInv ==
    /\ \A t \in solutions : \A j \in Objective : t[j] \in Int
    /\ \A j \in Objective : Maximize(j) \in BOOLEAN
    /\ DOMAIN known = Objective
    /\ \A j \in Objective : /\ known[j].under \in Int /\ known[j].over \in Int
                            /\ \A t \in solutions : /\ known[j].under <= t[j]
                                                    /\ t[j] <= known[j].over
    /\ phase \in {"start", "objective", "search", "closing", "done"}
    /\ current \in 1..(Len(Top) + 1) /\ value \in Int /\ bound \in Int
    /\ phase \in {"search", "closing"} => current \in Objective
    /\ phase = "start" => current = 1 /\ assume = {} /\ ~hitCutoff
    /\ hitCutoff \in BOOLEAN /\ foundOptimal \in BOOLEAN

\* What is assumed is about the objectives done, and the model meets it.
ModelInv ==
    /\ \A a \in assume : a[1] \in Before /\ a[2] \in Int
    /\ phase \in {"objective", "search", "closing"} =>
         /\ model \in Allowed(assume) /\ best \in solutions
         /\ phase = "objective" => best = model
    /\ phase \in {"search", "closing"} => kept = model /\ value = model[current]

\* No solution is better than x in the objective at hand, as far as it meets
\* what is assumed.
NoneBetter(x) == \A t \in Allowed(assume) : ~Better(t[current], x, Maximize(current))

\* As long as no search was cut off: the objectives done are the best there are,
\* one after the other, and the assumptions leave them no choice; the search at
\* hand has passed nothing over.
OptimalInv ==
    /\ phase = "objective" /\ hitCutoff => ~foundOptimal
    /\ foundOptimal /\ phase \in {"objective", "search", "closing"} =>
         /\ \A t \in Allowed(assume) : \A j \in Before : t[j] = best[j]
         /\ \A t \in solutions, j \in Before :
              (\A k \in 1..(j - 1) : t[k] = best[k]) => ~Better(t[j], best[j], Maximize(j))
    /\ phase = "search" /\ ~hitCutoff /\ setting.search = "binary" => NoneBetter(bound)
    /\ phase = "closing" /\ ~hitCutoff => NoneBetter(value)

AnswerInv ==
    /\ AnswerRight
    /\ phase # "done" => answer = "none"

Inv == TypeInv /\ ModelInv /\ OptimalInv /\ AnswerInv

-----------------------------------------------------------------------------
\* Objectives are numbered, and have numbers as bounds.
LEMMA ObjectiveFacts ==
    /\ Objective = 1..Len(Top) /\ Len(Top) \in Nat
    /\ \A j \in Objective : Top[j] \in Nat
  BY OptimizeAssumption DEF Objective

\* Of two values at most one is better, and it is by one at least.
LEMMA BetterFacts ==
    ASSUME NEW x \in Int, NEW y \in Int, NEW z \in Int, NEW b \in BOOLEAN
    PROVE /\ ~Better(x, y, b) /\ ~Better(y, x, b) => x = y
          /\ ~Better(x, x, b)
          /\ ~Better(x, y, b) /\ ~Better(y, z, b) => ~Better(x, z, b)
  BY DEF Better

\* The invariant holds in the beginning,
LEMMA InitInv == Init => Inv
  <1> SUFFICES ASSUME Init PROVE Inv
    OBVIOUS
  <1>1. TypeInv
    <2>1. \A t \in solutions : \A j \in Objective : t[j] \in 0..Top[j]
      BY OptimizeAssumption DEF Init
    <2>2. \A j \in Objective : Top[j] \in Nat
      BY ObjectiveFacts
    <2>3. \A j \in Objective : Maximize(j) \in BOOLEAN
      BY OptimizeAssumption DEF Init, Maximize
    <2>4. DOMAIN known = Objective
      BY DEF Init
    <2>5. ASSUME NEW j \in Objective
          PROVE  /\ known[j].under \in Int /\ known[j].over \in Int
                 /\ \A t \in solutions : known[j].under <= t[j] /\ t[j] <= known[j].over
      <3>1. known[j].under = 0 /\ known[j].over = Top[j]
        BY DEF Init
      <3> QED BY <2>1, <2>2, <3>1
    <2>6. \A t \in solutions : \A j \in Objective : t[j] \in Int
      BY <2>1, <2>2
    <2>7. current \in 1..(Len(Top) + 1)
      BY ObjectiveFacts DEF Init
    <2>8. /\ value \in Int /\ bound \in Int /\ phase = "start" /\ assume = {}
          /\ current = 1 /\ hitCutoff = FALSE /\ foundOptimal = TRUE
      BY DEF Init
    <2>9. hitCutoff \in BOOLEAN /\ foundOptimal \in BOOLEAN /\ ~hitCutoff
      BY <2>8
    <2> HIDE DEF Objective
    <2> QED BY <2>3, <2>4, <2>5, <2>6, <2>7, <2>8, <2>9 DEF TypeInv
  <1>2. ModelInv /\ OptimalInv /\ AnswerInv
    BY DEF Init, ModelInv, OptimalInv, AnswerInv, AnswerRight
  <1> QED BY <1>1, <1>2 DEF Inv

\* A solution that agrees with an allowed one on the objectives done is allowed.
LEMMA Agreeing ==
    ASSUME ModelInv, NEW s \in Allowed(assume), NEW t \in solutions,
           \A j \in Before : t[j] = s[j]
    PROVE t \in Allowed(assume)
  BY DEF ModelInv, Allowed

-----------------------------------------------------------------------------
(***************************************************************************)
(* One lemma per action.                                                   *)
(***************************************************************************)
LEMMA LearnBoundsInv ==
    ASSUME Inv, NEW i \in Objective, LearnBounds(i) PROVE Inv'
  <1>1. /\ UNCHANGED <<solutions, setting, phase, current, value, bound, kept, model>>
        /\ UNCHANGED <<assume, best, hitCutoff, foundOptimal, answer>>
    BY DEF LearnBounds, instance, searching, outcome
  <1>2. /\ DOMAIN known' = Objective
        /\ \A j \in Objective : /\ known'[j].under \in Int /\ known'[j].over \in Int
                                /\ \A t \in solutions : /\ known'[j].under <= t[j]
                                                        /\ t[j] <= known'[j].over
    <2>1. PICK lo, hi \in known[i].under..known[i].over :
             /\ \A t \in solutions : lo <= t[i] /\ t[i] <= hi
             /\ known' = [known EXCEPT ![i] = [under |-> lo, over |-> hi]]
      BY DEF LearnBounds
    <2>2. lo \in Int /\ hi \in Int
      BY DEF Inv, TypeInv
    <2> QED BY <2>1, <2>2 DEF Inv, TypeInv
  <1>3. TypeInv'
    BY <1>1, <1>2 DEF Inv, TypeInv, Maximize, Objective
  <1>4. ModelInv' /\ OptimalInv' /\ AnswerInv'
    BY <1>1 DEF Inv, ModelInv, OptimalInv, AnswerInv, AnswerRight, NoneBetter, Before,
                Allowed, Maximize, Precedes
  <1> QED BY <1>3, <1>4 DEF Inv

\* after the first call of the solver,
LEMMA InitialInv ==
    ASSUME Inv, InitialSolve \/ InitialUnsat \/ InitialCutoff PROVE Inv'
  <1>1. /\ UNCHANGED <<solutions, setting, known, current, value, bound, assume, hitCutoff>>
        /\ phase = "start" /\ phase' \in {"objective", "done"} /\ foundOptimal' \in BOOLEAN
    BY DEF Inv, TypeInv, InitialSolve, InitialUnsat, InitialCutoff, instance, searching
  <1>2. TypeInv'
    BY <1>1 DEF Inv, TypeInv, Maximize
  <1>3. current = 1 /\ assume = {} /\ ~hitCutoff
    BY <1>1 DEF Inv, TypeInv
  <1>4. CASE InitialSolve
    <2>1. model' \in solutions /\ best' = model' /\ phase' = "objective"
      BY <1>4 DEF InitialSolve
    <2>2. ModelInv'
      BY <1>1, <1>3, <2>1 DEF ModelInv, Allowed
    <2>3. OptimalInv'
      BY <1>1, <1>3, <2>1 DEF OptimalInv, Before
    <2>4. AnswerInv'
      BY <1>1, <1>4 DEF Inv, AnswerInv, AnswerRight, InitialSolve
    <2> QED BY <1>2, <2>2, <2>3, <2>4 DEF Inv
  <1>5. CASE InitialUnsat \/ InitialCutoff
    <2>1. phase' = "done"
      BY <1>5 DEF InitialUnsat, InitialCutoff
    <2>2. ModelInv' /\ OptimalInv'
      BY <1>1, <1>3, <2>1 DEF ModelInv, OptimalInv
    <2>3. AnswerInv'
      BY <1>1, <1>5, <2>1 DEF AnswerInv, AnswerRight, InitialUnsat, InitialCutoff
    <2> QED BY <1>2, <2>2, <2>3 DEF Inv
  <1> QED BY <1>4, <1>5

\* A solution is among the values the objectives admit.
LEMMA ModelFacts ==
    ASSUME Inv, phase \in {"objective", "search", "closing"}
    PROVE  /\ model \in solutions /\ model \in Allowed(assume)
           /\ \A j \in Objective : model[j] \in Int
  BY DEF Inv, TypeInv, ModelInv, Allowed

\* No solution is better than the bound known at level 0.
LEMMA LevelZeroFacts ==
    ASSUME TypeInv, NEW j \in Objective
    PROVE  /\ LevelZero(j) \in Int
           /\ \A t \in solutions : ~Better(t[j], LevelZero(j), Maximize(j))
  BY DEF TypeInv, LevelZero, Better

\* when an objective is taken up,
LEMMA BeginSearchInv == ASSUME Inv, BeginSearch PROVE Inv'
  <1>1. /\ UNCHANGED <<solutions, setting, known, current, assume, model>>
        /\ UNCHANGED <<best, hitCutoff, foundOptimal, answer>>
        /\ phase = "objective" /\ phase' = "search" /\ current \in Objective /\ ~hitCutoff
        /\ value' = model[current] /\ bound' = LevelZero(current) /\ kept' = model
    BY DEF BeginSearch, instance, outcome
  <1>2. TypeInv'
    BY <1>1, ModelFacts, LevelZeroFacts DEF Inv, TypeInv, Maximize
  <1>3. ModelInv' /\ AnswerInv'
    BY <1>1 DEF Inv, ModelInv, Before, Allowed, Maximize, AnswerInv, AnswerRight
  <1>4. NoneBetter(bound)'
    <2>1. \A t \in solutions : ~Better(t[current], bound', Maximize(current))
      BY <1>1, LevelZeroFacts DEF Inv
    <2> QED BY <1>1, <2>1 DEF NoneBetter, Allowed, Maximize
  <1>5. OptimalInv'
    BY <1>1, <1>4 DEF Inv, OptimalInv, Before, Allowed, Maximize
  <1> QED BY <1>2, <1>3, <1>5 DEF Inv

\* when a better solution is found,
LEMMA ImproveInv == ASSUME Inv, Improve PROVE Inv'
  <1>1. /\ UNCHANGED <<solutions, setting, known, current, assume, phase>>
        /\ UNCHANGED <<best, hitCutoff, foundOptimal, answer>>
        /\ phase = "search" /\ current \in Objective
    BY DEF Improve, Open, instance, outcome, Inv, TypeInv
  <1>2. PICK t \in Allowed(assume \cup {<<current, Tested>>}) :
           /\ model' = t /\ kept' = t /\ value' = t[current]
           /\ bound' = IF Better(bound, t[current], Maximize(current)) THEN bound
                       ELSE t[current]
    BY DEF Improve
  <1>3. t \in Allowed(assume) /\ t \in solutions
    BY DEF Allowed
  <1>4. t[current] \in Int /\ bound \in Int /\ Maximize(current) \in BOOLEAN
    BY <1>1, <1>3 DEF Inv, TypeInv
  <1>5. TypeInv'
    BY <1>1, <1>2, <1>4 DEF Inv, TypeInv, Maximize
  <1>6. ModelInv' /\ AnswerInv'
    BY <1>1, <1>2, <1>3 DEF Inv, ModelInv, Before, Allowed, Maximize, AnswerInv, AnswerRight
  <1>7. NoneBetter(bound) => NoneBetter(bound)'
    <2> SUFFICES ASSUME NoneBetter(bound), NEW s \in Allowed(assume)
                 PROVE  ~Better(s[current], bound', Maximize(current))
      BY <1>1 DEF NoneBetter, Allowed, Maximize
    <2>1. s[current] \in Int
      BY <1>1 DEF Inv, TypeInv, Allowed
    <2>2. ~Better(s[current], bound, Maximize(current))
      BY DEF NoneBetter
    <2> QED BY <1>2, <1>4, <2>1, <2>2 DEF Better
  <1>8. OptimalInv'
    BY <1>1, <1>7 DEF Inv, OptimalInv, Before, Allowed, Maximize
  <1> QED BY <1>5, <1>6, <1>8 DEF Inv

\* What is tried next is a number.
LEMMA TestedFacts == ASSUME TypeInv, current \in Objective PROVE Tested \in Int
  <1>1. \A x, y \in Int : (x - y) \div 2 \in Int
    OBVIOUS
  <1> QED BY <1>1 DEF TypeInv, Tested, MidPoint

\* when there is none, or the time is up,
LEMMA GiveUpInv == ASSUME Inv, NEW cut \in BOOLEAN, GiveUp(cut) PROVE Inv'
  <1>1. /\ UNCHANGED <<solutions, setting, known, current, value, kept, assume>>
        /\ UNCHANGED <<best, foundOptimal, answer>>
        /\ phase = "search" /\ current \in Objective
        /\ hitCutoff' = cut /\ model' = kept /\ kept = model
    BY DEF GiveUp, Open, instance, Inv, TypeInv, ModelInv
  <1>2. Tested \in Int /\ value \in Int /\ Maximize(current) \in BOOLEAN
    BY <1>1, TestedFacts DEF Inv, TypeInv
  <1>3. \/ /\ setting.search = "binary" /\ phase' = "search"
           /\ bound' = Narrowed(Tested, Maximize(current))
        \/ setting.search # "binary" /\ phase' = "closing" /\ bound' = bound
    BY <1>1 DEF GiveUp
  <1>4. TypeInv'
    <2>1. bound' \in Int
      BY <1>2, <1>3 DEF Inv, TypeInv, Narrowed
    <2> QED BY <1>1, <1>3, <2>1 DEF Inv, TypeInv, Maximize
  <1>5. ModelInv' /\ AnswerInv'
    BY <1>1, <1>3 DEF Inv, ModelInv, Before, Allowed, Maximize, AnswerInv, AnswerRight
  <1>6. ASSUME ~cut, NEW s \in Allowed(assume)
        PROVE  Better(Tested, s[current], Maximize(current)) /\ s[current] \in Int
    <2>1. s \notin Allowed(assume \cup {<<current, Tested>>})
      BY <1>6 DEF GiveUp
    <2>2. s \in solutions
      BY DEF Allowed
    <2> QED BY <1>1, <2>1, <2>2 DEF Allowed, Inv, TypeInv
  <1>7. CASE setting.search = "binary"
    <2>1. ~cut => NoneBetter(bound)'
      <3> SUFFICES ASSUME ~cut, NEW s \in Allowed(assume)
                   PROVE  ~Better(s[current], bound', Maximize(current))
        BY <1>1 DEF NoneBetter, Allowed, Maximize
      <3> QED BY <1>2, <1>3, <1>6, <1>7 DEF Better, Narrowed
    <2> OptimalInv'
      BY <1>1, <1>3, <1>7, <2>1 DEF Inv, OptimalInv, Before, Allowed, Maximize
    <2> QED BY <1>4, <1>5 DEF Inv
  <1>8. CASE setting.search # "binary"
    <2>1. ~cut => NoneBetter(value)'
      <3> SUFFICES ASSUME ~cut, NEW s \in Allowed(assume)
                   PROVE  ~Better(s[current], value, Maximize(current))
        BY <1>1 DEF NoneBetter, Allowed, Maximize
      <3> QED BY <1>2, <1>6, <1>8 DEF Better, Tested
    <2> OptimalInv'
      BY <1>1, <1>3, <1>8, <2>1 DEF Inv, OptimalInv, Before, Allowed, Maximize
    <2> QED BY <1>4, <1>5 DEF Inv
  <1> QED BY <1>7, <1>8

\* when the objective is done,
LEMMA EndSearchInv == ASSUME Inv, EndSearch PROVE Inv'
  <1>1. /\ UNCHANGED <<solutions, setting, known, value, bound, model>>
        /\ phase \in {"search", "closing"} /\ phase' \in {"objective", "done"}
        /\ phase' = "objective" => answer' = answer
        /\ phase' = "done" => answer' = "throw"
        /\ best' = model /\ current' = current + 1
        /\ foundOptimal' = (foundOptimal /\ ~hitCutoff)
        /\ hitCutoff' = (hitCutoff /\ ~setting.perArg)
    BY DEF EndSearch, instance, searching
  <1>2. /\ current \in Objective /\ current \in 1..Len(Top) /\ Len(Top) \in Nat
        /\ value = model[current] /\ value \in Int /\ bound \in Int
        /\ Maximize(current) \in BOOLEAN
        /\ hitCutoff \in BOOLEAN /\ foundOptimal \in BOOLEAN
    BY <1>1, ObjectiveFacts DEF Inv, TypeInv, ModelInv
  <1>3. model \in solutions /\ model \in Allowed(assume)
        /\ \A j \in Objective : model[j] \in Int
    BY <1>1, ModelFacts
  <1>4. assume' = assume \cup {<<current, value>>} \cup {<<j, model[j]>> : j \in Improved}
    BY DEF EndSearch
  <1>5. Before' = Before \cup {current} /\ Before \subseteq Objective
    BY <1>1, <1>2, ObjectiveFacts DEF Before
  <1>6. TypeInv'
    <2>1. (hitCutoff /\ ~setting.perArg) \in BOOLEAN /\ (foundOptimal /\ ~hitCutoff) \in BOOLEAN
      OBVIOUS
    <2>2. current' \in 1..(Len(Top) + 1)
      BY <1>1, <1>2
    <2> QED BY <1>1, <1>2, <2>1, <2>2 DEF Inv, TypeInv, Maximize
  <1>7. ModelInv'
    <2>1. \A a \in assume' : a[1] \in Before' /\ a[2] \in Int
      <3> SUFFICES ASSUME NEW a \in assume' PROVE a[1] \in Before' /\ a[2] \in Int
        OBVIOUS
      <3>1. CASE a \in assume
        BY <3>1, <1>5 DEF Inv, ModelInv
      <3>2. CASE a = <<current, value>>
        BY <3>2, <1>2, <1>5
      <3>3. CASE \E j \in Improved : a = <<j, model[j]>>
        BY <3>3, <1>3, <1>5 DEF Improved, Earlier, Before
      <3> QED BY <1>4, <3>1, <3>2, <3>3
    <2>2. model \in Allowed(assume')
      <3> SUFFICES ASSUME NEW a \in assume'
                   PROVE  ~Better(a[2], model[a[1]], Maximize(a[1]))
        BY <1>3 DEF Allowed
      <3>1. CASE a \in assume
        BY <3>1, <1>3 DEF Allowed
      <3>2. CASE a = <<current, value>>
        BY <3>2, <1>2 DEF Better
      <3>3. CASE \E j \in Improved : a = <<j, model[j]>>
        <4> PICK j \in Improved : a = <<j, model[j]>>
          BY <3>3
        <4> model[j] \in Int
          BY <1>3, <1>5 DEF Improved, Earlier, Before
        <4> QED BY DEF Better
      <3> QED BY <1>4, <3>1, <3>2, <3>3
    <2>3. Allowed(assume)' = Allowed(assume')
      BY <1>1 DEF Allowed, Maximize
    <2> QED BY <1>1, <1>3, <2>1, <2>2, <2>3 DEF ModelInv
  <1>8. OptimalInv'
    <2>1. phase' = "objective" /\ hitCutoff' => ~foundOptimal'
      BY <1>1
    <2>2. ASSUME foundOptimal', NEW t \in solutions
          PROVE  /\ t \in Allowed(assume') => \A j \in Before' : t[j] = best'[j]
                 /\ \A j \in Before' : (\A k \in 1..(j - 1) : t[k] = best'[k])
                                         => ~Better(t[j], best'[j], Maximize(j))
      <3>1. foundOptimal /\ ~hitCutoff
        BY <1>1, <2>2
      <3>2. \A s \in Allowed(assume) : s \in solutions /\ s[current] \in Int
        BY <1>2 DEF Allowed, Inv, TypeInv
      <3>3. NoneBetter(value)
        <4>1. CASE phase = "closing"
          BY <4>1, <3>1 DEF Inv, OptimalInv
        <4>2. CASE phase = "search"
          <5>1. ~Better(Goal, value, Maximize(current))
            BY <4>2, <3>1 DEF EndSearch
          <5>2. Goal \in Int /\ NoneBetter(Goal)
            <6>1. CASE setting.search = "binary"
              BY <6>1, <4>2, <3>1, <1>2 DEF Goal, Inv, OptimalInv
            <6>2. CASE setting.search # "binary"
              BY <6>2, <1>2, <3>2, LevelZeroFacts DEF Goal, Inv, NoneBetter
            <6> QED BY <6>1, <6>2
          <5> HIDE DEF Goal
          <5> QED BY <1>2, <3>2, <5>1, <5>2, BetterFacts DEF NoneBetter
        <4> QED BY <1>1, <4>1, <4>2
      <3>4. \A j \in Before : best[j] = model[j]
        BY <1>1, <1>3, <3>1 DEF Inv, OptimalInv
      <3>5. ASSUME t \in Allowed(assume'), NEW j \in Before' PROVE t[j] = model[j]
        <4>1. t \in Allowed(assume) /\ ~Better(value, t[current], Maximize(current))
          <5>1. assume \subseteq assume' /\ <<current, value>> \in assume'
            BY <1>4
          <5>2. <<current, value>>[1] = current /\ <<current, value>>[2] = value
            OBVIOUS
          <5> QED BY <3>5, <5>1, <5>2 DEF Allowed
        <4>2. CASE j \in Before
          BY <4>1, <4>2, <3>1, <3>4, <1>1 DEF Inv, OptimalInv
        <4>3. CASE j = current
          <5>1. t[current] \in Int /\ ~Better(t[current], value, Maximize(current))
            BY <4>1, <3>2, <3>3 DEF NoneBetter
          <5> QED BY <1>2, <4>1, <4>3, <5>1, BetterFacts
        <4> QED BY <1>5, <4>2, <4>3
      <3>6. ASSUME NEW j \in Before', \A k \in 1..(j - 1) : t[k] = model[k]
            PROVE  ~Better(t[j], model[j], Maximize(j))
        <4>1. CASE j \in Before
          <5>1. \A k \in 1..(j - 1) : t[k] = best[k]
            <6> SUFFICES ASSUME NEW k \in 1..(j - 1) PROVE t[k] = best[k]
              OBVIOUS
            <6> k \in Before
              BY <4>1, <1>2 DEF Before
            <6> QED BY <3>6, <3>4
          <5> QED BY <4>1, <5>1, <3>1, <3>4, <1>1 DEF Inv, OptimalInv
        <4>2. CASE j = current
          <5>1. t \in Allowed(assume)
            BY <3>6, <4>2, <1>3, Agreeing DEF Inv, Before
          <5> QED BY <5>1, <4>2, <3>3, <1>2 DEF NoneBetter
        <4> QED BY <1>5, <4>1, <4>2
      <3> QED BY <1>1, <3>5, <3>6
    <2>3. Allowed(assume)' = Allowed(assume') /\ \A t \in Allowed(assume') : t \in solutions
      BY <1>1 DEF Allowed, Maximize
    <2>4. \A j : Maximize(j)' = Maximize(j)
      BY <1>1 DEF Maximize
    <2> QED BY <1>1, <2>1, <2>2, <2>3, <2>4 DEF OptimalInv
  <1>9. AnswerInv'
    BY <1>1 DEF Inv, AnswerInv, AnswerRight
  <1> QED BY <1>6, <1>7, <1>8, <1>9 DEF Inv

\* and when the last solution is checked:
LEMMA CheckSolutionInv == ASSUME Inv, CheckSolution PROVE Inv'
  <1>1. /\ UNCHANGED <<solutions, setting, known, current, value, bound, kept, assume>>
        /\ UNCHANGED <<best, hitCutoff, foundOptimal>>
        /\ phase = "objective" /\ phase' = "done" /\ model' = best
        /\ answer' \in {"throw", "sat"}
        /\ current \notin Objective \/ hitCutoff
    BY DEF CheckSolution, instance, searching
  <1>2. TypeInv' /\ ModelInv' /\ OptimalInv'
    BY <1>1 DEF Inv, TypeInv, ModelInv, OptimalInv, Before, Maximize
  <1>3. ASSUME foundOptimal, NEW t \in solutions PROVE ~Precedes(t, best)
    <2>1. ~hitCutoff /\ current \notin Objective
      BY <1>1, <1>3 DEF Inv, OptimalInv
    <2>2. Before = Objective
      BY <2>1, ObjectiveFacts DEF Before, Inv, TypeInv
    <2> QED BY <1>1, <1>3, <2>2 DEF Inv, OptimalInv, Precedes
  <1>4. AnswerInv'
    BY <1>1, <1>3 DEF Inv, ModelInv, AnswerInv, AnswerRight, Precedes, Maximize
  <1> QED BY <1>2, <1>4 DEF Inv

\* it is kept by every step.
LEMMA NextInv == Inv /\ [Next]_vars => Inv'
  <1> SUFFICES ASSUME Inv, [Next]_vars PROVE Inv'
    OBVIOUS
  <1>1. ASSUME UNCHANGED vars PROVE Inv'
    BY <1>1 DEF vars, instance, searching, values, outcome, Inv, TypeInv, ModelInv, OptimalInv,
                AnswerInv, AnswerRight, NoneBetter, Before, Allowed, Maximize, Precedes
  <1>2. ASSUME Step PROVE Inv'
    BY <1>2, InitialInv, BeginSearchInv, ImproveInv, GiveUpInv, EndSearchInv, CheckSolutionInv
       DEF Step
  <1> QED BY <1>1, <1>2, LearnBoundsInv DEF Next, Finished

\* An answer of optimize_and_solve is right whenever it is given: "unsat" only when
\* there is no solution, "sat" with a solution, and one that no other precedes
\* in the order of the goals when it is said to be optimal.
THEOREM AlwaysAnswersRight == Spec => []AnswerRight
  <1>1. Inv => AnswerRight
    BY DEF Inv, AnswerInv
  <1> QED BY <1>1, InitInv, NextInv, PTL DEF Spec

-----------------------------------------------------------------------------
(***************************************************************************)
(* The consistency checks.  They compare the values of all objectives in   *)
(* the direction of one of them, and with the bounds of objectives that    *)
(* were never searched for, so that they are right only for some settings. *)
(***************************************************************************)
\* No objective that is minimized comes after one that is maximized, and no
\* objective that is maximized is left out when the whole call is cut off.
ChecksFit(s) ==
    /\ \A j, k \in Objective : j < k /\ s.maximize[j] => s.maximize[k]
    /\ s.limited /\ ~s.perArg => \A j \in Objective : ~s.maximize[j]

\* The recorded values are no better than those of an allowed solution, in the
\* direction of their own objective; against it, they bound them too.
ValuesInv ==
    phase \in {"objective", "search", "closing"} =>
      \A t \in Allowed(assume), j \in Objective :
        /\ mins[j] \in Int /\ maxs[j] \in Int
        /\ IF Maximize(j) THEN j \in Before => maxs[j] <= t[j]
                          ELSE mins[j] >= t[j] /\ maxs[j] <= t[j]

CheckInv ==
    /\ Inv /\ ChecksFit(setting) /\ NeverThrows /\ ValuesInv
    /\ hitCutoff => setting.limited
    /\ phase = "objective" /\ hitCutoff => ~setting.perArg

\* No check has failed in the beginning,
LEMMA CheckInit == (\A s \in Settings : ChecksFit(s)) /\ Init => CheckInv
  BY InitInv DEF Init, CheckInv, NeverThrows, ValuesInv

\* an objective ends with values in line,
LEMMA EndSearchValues ==
    ASSUME CheckInv, EndSearch PROVE ValuesInv' /\ ~Inconsistent
  <1>1. /\ UNCHANGED <<solutions, setting>>
        /\ phase \in {"search", "closing"}
        /\ current' = current + 1
        /\ assume' = assume \cup {<<current, value>>} \cup {<<j, model[j]>> : j \in Improved}
        /\ mins' = [j \in Objective |->
                      IF Maximize(j) THEN mins[j]
                      ELSE IF j = current THEN value
                      ELSE IF j \in Improved THEN model[j] ELSE mins[j]]
        /\ maxs' = [j \in Objective |->
                      IF ~Maximize(j) THEN maxs[j]
                      ELSE IF j = current THEN value
                      ELSE IF j \in Improved THEN model[j] ELSE maxs[j]]
    BY DEF EndSearch, instance
  <1>2. /\ current \in Objective /\ current \in 1..Len(Top) /\ Len(Top) \in Nat
        /\ value \in Int /\ \A j \in Objective : Maximize(j) \in BOOLEAN
    BY <1>1, ObjectiveFacts DEF CheckInv, Inv, TypeInv
  <1>3. model \in Allowed(assume) /\ \A j \in Objective : model[j] \in Int
    BY <1>1, ModelFacts DEF CheckInv
  <1>4. Before \subseteq Objective /\ Earlier = Before
    BY <1>2, ObjectiveFacts DEF Before, Earlier
  <1>5. ~Inconsistent
    <2> SUFFICES ASSUME NEW j \in Before
                 PROVE  ~Better(OldValue(j), model[j], Maximize(current))
      BY <1>4 DEF Inconsistent
    <2>1. j \in Objective /\ j < current
      BY <1>2, <1>4 DEF Before
    <2>2. Maximize(j) => Maximize(current)
      BY <1>2, <2>1 DEF CheckInv, ChecksFit, Maximize
    <2>3. /\ mins[j] \in Int /\ maxs[j] \in Int
          /\ IF Maximize(j) THEN maxs[j] <= model[j]
                            ELSE mins[j] >= model[j] /\ maxs[j] <= model[j]
      BY <1>1, <1>3, <2>1 DEF CheckInv, ValuesInv
    <2> QED BY <1>2, <1>3, <2>1, <2>2, <2>3 DEF OldValue, BestValue, Better
  <1>6. ASSUME NEW t \in Allowed(assume'), NEW j \in Objective
        PROVE  /\ mins'[j] \in Int /\ maxs'[j] \in Int
               /\ IF Maximize(j) THEN j \in Before' => maxs'[j] <= t[j]
                                 ELSE mins'[j] >= t[j] /\ maxs'[j] <= t[j]
    <2>1. assume \subseteq assume' /\ <<current, value>> \in assume'
          /\ \A k \in Improved : <<k, model[k]>> \in assume'
      BY <1>1
    <2>2. t \in Allowed(assume) /\ t \in solutions /\ t[j] \in Int
      BY <2>1 DEF Allowed, CheckInv, Inv, TypeInv
    <2>3. /\ mins[j] \in Int /\ maxs[j] \in Int
          /\ IF Maximize(j) THEN j \in Before => maxs[j] <= t[j]
                            ELSE mins[j] >= t[j] /\ maxs[j] <= t[j]
      BY <1>1, <2>2 DEF CheckInv, ValuesInv
    <2>4. j = current => ~Better(value, t[j], Maximize(j))
      <3>1. <<current, value>>[1] = current /\ <<current, value>>[2] = value
        OBVIOUS
      <3> QED BY <2>1, <3>1 DEF Allowed
    <2>5. j \in Improved => ~Better(model[j], t[j], Maximize(j))
      <3>1. <<j, model[j]>>[1] = j /\ <<j, model[j]>>[2] = model[j]
        OBVIOUS
      <3> QED BY <2>1, <3>1 DEF Allowed
    <2>6. j \in Before' => j \in Before \/ j = current
      BY <1>1, <1>2 DEF Before
    <2>7. CASE Maximize(j)
      <3>1. mins'[j] = mins[j]
        BY <1>1, <2>7
      <3>2. maxs'[j] = IF j = current THEN value
                       ELSE IF j \in Improved THEN model[j] ELSE maxs[j]
        BY <1>1, <2>7
      <3>3. CASE j = current
        BY <1>2, <2>2, <2>3, <2>4, <2>7, <3>1, <3>2, <3>3 DEF Better
      <3>4. CASE j # current /\ j \in Improved
        BY <1>3, <2>2, <2>3, <2>5, <2>7, <3>1, <3>2, <3>4 DEF Better
      <3>5. CASE j # current /\ j \notin Improved
        BY <2>3, <2>6, <2>7, <3>1, <3>2, <3>5
      <3> QED BY <3>3, <3>4, <3>5
    <2>8. CASE ~Maximize(j)
      <3>1. maxs'[j] = maxs[j]
        BY <1>1, <2>8
      <3>2. mins'[j] = IF j = current THEN value
                       ELSE IF j \in Improved THEN model[j] ELSE mins[j]
        BY <1>1, <2>8
      <3>3. CASE j = current
        BY <1>2, <2>2, <2>3, <2>4, <2>8, <3>1, <3>2, <3>3 DEF Better
      <3>4. CASE j # current /\ j \in Improved
        BY <1>3, <2>2, <2>3, <2>5, <2>8, <3>1, <3>2, <3>4 DEF Better
      <3>5. CASE j # current /\ j \notin Improved
        BY <2>3, <2>8, <3>1, <3>2, <3>5
      <3> QED BY <3>3, <3>4, <3>5
    <2> QED BY <2>7, <2>8
  <1>7. Allowed(assume)' = Allowed(assume') /\ \A j : Maximize(j)' = Maximize(j)
    BY <1>1 DEF Allowed, Maximize
  <1> QED BY <1>5, <1>6, <1>7 DEF ValuesInv

\* the last check passes,
LEMMA CheckSolutionPasses ==
    ASSUME CheckInv, CheckSolution PROVE answer' = "sat"
  <1>1. phase = "objective" /\ (current \notin Objective \/ hitCutoff) /\ best \in Allowed(assume)
    BY DEF CheckSolution, CheckInv, Inv, ModelInv
  <1>2. ASSUME NEW j \in Objective
        PROVE  ~Better(BestValue(j, mins, maxs, Maximize(j)), best[j], Maximize(j))
    <2>1. Maximize(j) => j \in Before
      <3>1. CASE current \notin Objective
        BY <3>1, ObjectiveFacts DEF CheckInv, Inv, TypeInv, Before
      <3>2. CASE hitCutoff
        BY <1>1, <3>2 DEF CheckInv, ChecksFit, Maximize
      <3> QED BY <1>1, <3>1, <3>2
    <2>2. best[j] \in Int /\ Maximize(j) \in BOOLEAN
      BY <1>1 DEF CheckInv, Inv, TypeInv, Allowed
    <2>3. /\ mins[j] \in Int /\ maxs[j] \in Int
          /\ IF Maximize(j) THEN maxs[j] <= best[j] ELSE mins[j] >= best[j]
      BY <1>1, <2>1 DEF CheckInv, ValuesInv
    <2> QED BY <2>2, <2>3 DEF BestValue, Better
  <1> QED BY <1>2 DEF CheckSolution

\* and so no check ever fails.
LEMMA CheckNext == CheckInv /\ [Next]_vars => CheckInv'
  <1> SUFFICES ASSUME CheckInv, [Next]_vars PROVE CheckInv'
    OBVIOUS
  <1>1. Inv'
    BY NextInv DEF CheckInv
  <1>2. ASSUME InitialSolve PROVE CheckInv'
    <2>1. /\ UNCHANGED <<solutions, setting, known, current, assume, hitCutoff, answer>>
          /\ phase = "start" /\ current = 1 /\ ~hitCutoff
          /\ mins' = [j \in Objective |-> IF Maximize(j) THEN known[j].under ELSE known[j].over]
          /\ maxs' = [j \in Objective |-> IF Maximize(j) THEN known[j].over ELSE known[j].under]
      BY <1>2 DEF InitialSolve, instance, CheckInv, Inv, TypeInv
    <2>2. ASSUME NEW t \in solutions, NEW j \in Objective
          PROVE  /\ mins'[j] \in Int /\ maxs'[j] \in Int
                 /\ ~Maximize(j) => mins'[j] >= t[j] /\ maxs'[j] <= t[j]
      <3>1. /\ known[j].under \in Int /\ known[j].over \in Int
            /\ known[j].under <= t[j] /\ t[j] <= known[j].over
            /\ t[j] \in Int /\ Maximize(j) \in BOOLEAN
        BY DEF CheckInv, Inv, TypeInv
      <3> QED BY <2>1, <3>1
    <2>3. Before' = {} /\ (\A j : Maximize(j)' = Maximize(j)) /\ Allowed(assume)' \subseteq solutions
      BY <2>1 DEF Before, Maximize, Allowed
    <2>4. ValuesInv'
      BY <2>2, <2>3 DEF ValuesInv
    <2> QED BY <1>1, <2>1, <2>4 DEF CheckInv, NeverThrows
  <1>3. ASSUME InitialUnsat \/ InitialCutoff \/ CheckSolution PROVE CheckInv'
    <2>1. UNCHANGED <<setting, hitCutoff>> /\ phase' = "done" /\ answer' # "throw"
      BY <1>3, CheckSolutionPasses
         DEF InitialUnsat, InitialCutoff, CheckSolution, instance, CheckInv, Inv, TypeInv
    <2> QED BY <1>1, <2>1 DEF CheckInv, NeverThrows, ValuesInv
  <1>4. ASSUME BeginSearch \/ Improve \/ GiveUp(TRUE) \/ GiveUp(FALSE) PROVE CheckInv'
    <2>1. /\ UNCHANGED <<solutions, setting, current, assume, mins, maxs, answer>>
          /\ phase \in {"objective", "search"} /\ phase' \in {"search", "closing"}
          /\ hitCutoff' => hitCutoff \/ setting.limited
      BY <1>4 DEF BeginSearch, Improve, GiveUp, Open, instance, values, outcome
    <2>2. ValuesInv'
      BY <2>1 DEF CheckInv, ValuesInv, Allowed, Maximize, Before
    <2> QED BY <1>1, <2>1, <2>2 DEF CheckInv, NeverThrows
  <1>5. ASSUME EndSearch PROVE CheckInv'
    <2>1. ValuesInv' /\ ~Inconsistent
      BY <1>5, EndSearchValues
    <2>2. UNCHANGED <<setting, answer>> /\ hitCutoff' = (hitCutoff /\ ~setting.perArg)
      BY <1>5, <2>1 DEF EndSearch, instance
    <2> QED BY <1>1, <2>1, <2>2 DEF CheckInv, NeverThrows
  <1>6. ASSUME UNCHANGED vars \/ \E j \in Objective : LearnBounds(j) PROVE CheckInv'
    <2>1. UNCHANGED <<solutions, setting, phase, current, assume, mins, maxs, hitCutoff, answer>>
      BY <1>6 DEF vars, LearnBounds, instance, searching, values, outcome
    <2>2. ValuesInv'
      BY <2>1 DEF CheckInv, ValuesInv, Allowed, Maximize, Before
    <2> QED BY <1>1, <2>1, <2>2 DEF CheckInv, NeverThrows
  <1> QED BY <1>2, <1>3, <1>4, <1>5, <1>6 DEF Next, Step, Finished

\* With settings the consistency checks are right for, none of the exceptions
\* behind a search or at the end of optimize_and_solve is ever thrown.
THEOREM ChecksNeverThrow ==
    ASSUME \A s \in Settings : ChecksFit(s) PROVE Spec => []NeverThrows
  <1>1. Init => CheckInv
    BY CheckInit
  <1>2. CheckInv => NeverThrows
    BY DEF CheckInv
  <1> QED BY <1>1, <1>2, CheckNext, PTL DEF Spec
=============================================================================
