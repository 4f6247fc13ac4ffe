------------------------------ MODULE AlertProofs ------------------------------
(***************************************************************************)
(* Theorems of the alert bot, for any set of pollers, any number of ticks  *)
(* of one poller that overlap, and any cooldown.  The safety of the posts  *)
(* needs none of the bot's fairness.                                       *)
(***************************************************************************)
EXTENDS AlertBot, TLAPS

(* The router's state, written before a post is awaited, is the truth      *)
(* about the posts begun: what the last one said and how long ago.         *)
StateKnowsPosts ==
    \A c \in Categories :
        /\ posts[c].age = state[c].age
        /\ posts[c].last = "failing" <=> state[c].isFailing

BotInv == BotTypeOK /\ StateKnowsPosts

Tick  == [phase : {"idle", "checking", "routing", "posting"}, results : Seq(Result)]
Known == [isFailing : BOOLEAN, age : 0..COOLDOWN]
Said  == [last : {"none", "failing", "recovered"}, age : 0..COOLDOWN]

(* A tick holds results exactly while it routes or posts them.             *)
Consistent(t) == t.phase \in {"routing", "posting"} <=> t.results # <<>>

--------------------------------------------------------------------------------
LEMMA BotTypes ==
    /\ BotTypeOK =>
         /\ tick \in [Pollers -> [Ticks -> Tick]]
         /\ \A p \in Pollers, i \in Ticks : Consistent(tick[p][i])
         /\ state \in [Categories -> Known] /\ posts \in [Categories -> Said]
    /\ (/\ down' \subseteq Conditions /\ primed' \in BOOLEAN
        /\ tick' \in [Pollers -> [Ticks -> Tick]]
        /\ \A p \in Pollers, i \in Ticks : Consistent(tick'[p][i])
        /\ state' \in [Categories -> Known] /\ posts' \in [Categories -> Said])
         => BotTypeOK'
    BY DEF BotTypeOK, Tick, Known, Said, Consistent

LEMMA IdleTyped == Idle \in Tick /\ Consistent(Idle)
<1>1. <<>> \in Seq(Result)
    OBVIOUS
<1> QED
    BY <1>1 DEF Idle, Tick, Consistent

LEMMA RoutingTyped ==
    ASSUME NEW results \in Seq(Result)
    PROVE  Routing(results) \in Tick /\ Consistent(Routing(results))
    BY IdleTyped DEF Routing, Tick, Consistent

LEMMA ObserveTyped ==
    ASSUME NEW c \in Categories
    PROVE  Observe(c) \in Result
<1>1. Fails(c) \in BOOLEAN
    BY DEF Fails
<1> QED
    BY <1>1 DEF Observe, Result

(* A check returns results in the categories of its poller.                *)
LEMMA CheckTyped ==
    ASSUME NEW p \in Pollers
    PROVE  CheckResults(p) \in Seq(Result)
<1>1. p \in AllPollers /\ CategoriesOf(p) \subseteq Categories
    BY AlertBotAssumption DEF Categories
<1>2. CASE p = "program"
    <2>1. Observe("program:holdfast") \in Result /\ Observe("program:escrow") \in Result
        BY <1>1, <1>2, ObserveTyped DEF CategoriesOf
    <2> QED
        BY <1>2, <2>1 DEF CheckResults
<1>3. CASE p = "rpc"
    <2>1. /\ Observe("rpc") \in Result
          /\ Observe("rpc:slot-lag") \in Result /\ Observe("rpc:stalled") \in Result
        BY <1>1, <1>3, ObserveTyped DEF CategoriesOf
    <2> QED
        BY <1>3, <2>1 DEF CheckResults
<1>4. CASE p = "escrow"
    <2>1. Observe("escrow-rpc") \in Result
        BY <1>1, <1>4, ObserveTyped DEF CategoriesOf
    <2> QED
        BY <1>4, <2>1 DEF CheckResults
<1>5. CASE p \in {"indexer", "oracle"}
    <2>1. Observe(p) \in Result
        BY <1>1, <1>5, ObserveTyped DEF CategoriesOf
    <2> QED
        BY <1>5, <2>1 DEF CheckResults
<1> QED
    BY <1>1, <1>2, <1>3, <1>4, <1>5 DEF AllPollers

(* What a step of one tick asks of that tick alone.                        *)
LEMMA OneTick ==
    ASSUME BotTypeOK, NEW p \in Pollers, NEW i \in Ticks, NEW t \in Tick, Consistent(t),
           tick' = [tick EXCEPT ![p][i] = t]
    PROVE  /\ tick' \in [Pollers -> [Ticks -> Tick]]
           /\ \A q \in Pollers, k \in Ticks : Consistent(tick'[q][k])
<1>1. /\ tick \in [Pollers -> [Ticks -> Tick]]
      /\ \A q \in Pollers, k \in Ticks : Consistent(tick[q][k])
    BY BotTypes
<1>2. tick' = [tick EXCEPT ![p] = [tick[p] EXCEPT ![i] = t]]
    OBVIOUS
<1>3. [tick[p] EXCEPT ![i] = t] \in [Ticks -> Tick]
    BY <1>1
<1> QED
    BY <1>1, <1>2, <1>3

--------------------------------------------------------------------------------
LEMMA WorldKeepsInv ==
    ASSUME BotInv, Elapse \/ \E c \in Conditions : Change(c)
    PROVE  BotInv'
<1>1. BotTypeOK /\ StateKnowsPosts
    BY DEF BotInv
<1>2. CASE Elapse
    <2>1. \A age \in 0..COOLDOWN : Older(age) \in 0..COOLDOWN
        BY AlertBotAssumption DEF Older
    <2>2. \A c \in Categories : /\ state'[c] = [state[c] EXCEPT !.age = Older(@)]
                                /\ posts'[c] = [posts[c] EXCEPT !.age = Older(@)]
        BY <1>2 DEF Elapse
    <2>3. state' \in [Categories -> Known] /\ posts' \in [Categories -> Said]
        BY <1>1, <1>2, <2>1, BotTypes DEF Elapse, Known, Said
    <2>4. StateKnowsPosts'
        <3> SUFFICES ASSUME NEW c \in Categories
                     PROVE  /\ posts'[c].age = state'[c].age
                            /\ posts'[c].last = "failing" <=> state'[c].isFailing
            BY DEF StateKnowsPosts
        <3>1. state[c] \in Known /\ posts[c] \in Said
            BY <1>1, BotTypes
        <3>2. /\ posts[c].age = state[c].age
              /\ posts[c].last = "failing" <=> state[c].isFailing
            BY <1>1 DEF StateKnowsPosts
        <3>3. /\ state'[c].age = Older(state[c].age)
              /\ state'[c].isFailing = state[c].isFailing
              /\ posts'[c].age = Older(posts[c].age)
              /\ posts'[c].last = posts[c].last
            BY <2>2, <3>1 DEF Known, Said
        <3> QED
            BY <3>2, <3>3
    <2>5. BotTypeOK'
        BY <1>1, <1>2, <2>3, BotTypes DEF Elapse, BotTypeOK
    <2> QED
        BY <2>4, <2>5 DEF BotInv
<1>3. CASE \E c \in Conditions : Change(c)
    BY <1>1, <1>3 DEF Change, BotInv, BotTypeOK, StateKnowsPosts
<1> QED
    BY <1>2, <1>3

(* A tick that moves without posting.                                      *)
LEMMA QuietStepKeepsInv ==
    ASSUME BotInv, NEW p \in Pollers, NEW i \in Ticks,
           Start(p, i) \/ Check(p, i) \/ PassOver(p, i) \/ Posted(p, i) \/ PostThrows(p, i)
    PROVE  BotInv'
<1>1. BotTypeOK /\ StateKnowsPosts /\ UNCHANGED <<down, state, posts>>
    BY DEF BotInv, Start, Check, PassOver, Posted, PostThrows
<1>2. tick[p][i] \in Tick /\ Consistent(tick[p][i])
    BY <1>1, BotTypes
<1>3. \E t \in Tick : Consistent(t) /\ tick' = [tick EXCEPT ![p][i] = t]
    <2>1. CASE Start(p, i)
        <3> DEFINE t == [phase |-> "checking", results |-> <<>>]
        <3>1. <<>> \in Seq(Result)
            OBVIOUS
        <3>2. t \in Tick /\ Consistent(t)
            BY <3>1 DEF Tick, Consistent
        <3>3. tick' = [tick EXCEPT ![p][i] = t]
            BY <2>1 DEF Start
        <3> HIDE DEF t
        <3> QED
            BY <3>2, <3>3
    <2>2. CASE Check(p, i)
        BY <2>2, CheckTyped, RoutingTyped DEF Check
    <2>3. CASE PassOver(p, i) \/ Posted(p, i)
        <3>1. tick[p][i].results # <<>> /\ tick[p][i].results \in Seq(Result)
            BY <1>2, <2>3 DEF PassOver, Posted, Consistent, Tick
        <3>2. Tail(tick[p][i].results) \in Seq(Result)
            BY <3>1
        <3> QED
            BY <2>3, <3>2, RoutingTyped DEF PassOver, Posted
    <2>4. CASE PostThrows(p, i)
        BY <2>4, IdleTyped DEF PostThrows
    <2> QED
        BY <2>1, <2>2, <2>3, <2>4
<1>4. /\ tick' \in [Pollers -> [Ticks -> Tick]]
      /\ \A q \in Pollers, k \in Ticks : Consistent(tick'[q][k])
    BY <1>1, <1>3, OneTick
<1>5. primed' \in BOOLEAN
    BY <1>1 DEF Start, Check, PassOver, Posted, PostThrows, BotTypeOK
<1>6. BotTypeOK'
    BY <1>1, <1>4, <1>5, BotTypes DEF BotTypeOK
<1> QED
    BY <1>1, <1>6 DEF BotInv, StateKnowsPosts

LEMMA PostKeepsInv ==
    ASSUME BotInv, NEW p \in Pollers, NEW i \in Ticks, Post(p, i)
    PROVE  BotInv'
<1> DEFINE r == Head(tick[p][i].results)
           known == [isFailing |-> ~r.healthy, age |-> 0]
           said == [last |-> IF r.healthy THEN "recovered" ELSE "failing", age |-> 0]
           t == [tick[p][i] EXCEPT !.phase = "posting"]
<1>1. BotTypeOK /\ StateKnowsPosts
    BY DEF BotInv
<1>2. tick[p][i] \in Tick /\ Consistent(tick[p][i]) /\ tick[p][i].phase = "routing"
    BY <1>1, BotTypes DEF Post
<1>3. r \in Result
    BY <1>2 DEF Tick, Consistent
<1>4. r.category \in Categories /\ r.healthy \in BOOLEAN
    BY <1>3 DEF Result
<1>5. known \in Known /\ said \in Said
    BY <1>4, AlertBotAssumption DEF Known, Said
<1>6. t \in Tick /\ Consistent(t)
    BY <1>2 DEF Tick, Consistent
<1>7. /\ tick' = [tick EXCEPT ![p][i] = t] /\ state' = [state EXCEPT ![r.category] = known]
      /\ posts' = [posts EXCEPT ![r.category] = said] /\ UNCHANGED <<down, primed>>
    BY DEF Post
<1>8. StateKnowsPosts'
    <2>1. known.age = said.age /\ (said.last = "failing" <=> known.isFailing)
        BY <1>4
    <2> HIDE DEF known, said
    <2> QED
        BY <1>1, <1>7, <2>1, BotTypes DEF StateKnowsPosts
<1> HIDE DEF r, known, said, t
<1>9. state' \in [Categories -> Known] /\ posts' \in [Categories -> Said]
    BY <1>1, <1>4, <1>5, <1>7, BotTypes
<1>10. BotTypeOK'
    BY <1>1, <1>6, <1>7, <1>9, OneTick, BotTypes DEF BotTypeOK
<1> QED
    BY <1>8, <1>10 DEF BotInv

LEMMA BotInitInv == BotInit => BotInv
<1> SUFFICES ASSUME BotInit PROVE BotInv
    OBVIOUS
<1>1. tick \in [Pollers -> [Ticks -> Tick]]
    BY IdleTyped DEF BotInit
<1>2. \A p \in Pollers, i \in Ticks : Consistent(tick[p][i])
    BY IdleTyped DEF BotInit
<1>3. state \in [Categories -> Known] /\ posts \in [Categories -> Said]
    BY AlertBotAssumption DEF BotInit, Known, Said
<1>4. BotTypeOK
    BY <1>1, <1>2, <1>3 DEF BotInit, BotTypeOK, Tick, Known, Said, Consistent
<1>5. StateKnowsPosts
    BY DEF BotInit, StateKnowsPosts
<1> QED
    BY <1>4, <1>5 DEF BotInv

LEMMA BotNextKeepsInv == BotInv /\ [BotNext]_botVars => BotInv'
<1> SUFFICES ASSUME BotInv, [BotNext]_botVars PROVE BotInv'
    OBVIOUS
<1>1. CASE UNCHANGED botVars
    BY <1>1 DEF botVars, BotInv, BotTypeOK, StateKnowsPosts
<1>2. CASE \E p \in Pollers, i \in Ticks : TickStep(p, i)
    BY <1>2, QuietStepKeepsInv, PostKeepsInv DEF TickStep
<1> QED
    BY <1>1, <1>2, WorldKeepsInv DEF BotNext

LEMMA BotInvHolds == BotSpec => []BotInv
    BY BotInitInv, BotNextKeepsInv, PTL DEF BotSpec

--------------------------------------------------------------------------------
(* A step that begins a post is a Post, of a result there is something to  *)
(* say about, and the record of posts tells what that is.                  *)
LEMMA OnlyPostBegins ==
    ASSUME BotInv, [BotNext]_botVars, NEW c \in Categories, NEW healthy \in BOOLEAN,
           Begins(c, healthy)
    PROVE  ~NothingToSay([category |-> c, healthy |-> healthy])
<1>1. PICK p \in Pollers, i \in Ticks :
        /\ tick[p][i].phase = "routing" /\ tick'[p][i].phase = "posting"
        /\ Head(tick[p][i].results) = [category |-> c, healthy |-> healthy]
    BY DEF Begins
<1>2. tick \in [Pollers -> [Ticks -> Tick]]
    BY BotTypes DEF BotInv
<1>3. tick' # tick
    BY <1>1
<1>4. PICK q \in Pollers, k \in Ticks : TickStep(q, k)
    BY <1>3 DEF BotNext, Change, Elapse, botVars
<1>5. q = p /\ k = i
    <2>1. \E t : tick' = [tick EXCEPT ![q][k] = t]
        BY <1>4 DEF TickStep, Start, Check, PassOver, Post, Posted, PostThrows
    <2> QED
        BY <1>1, <1>2, <2>1
<1>6. \A results \in Seq(Result) : Routing(results).phase \in {"idle", "routing"}
    BY DEF Routing, Idle
<1>7. ~Start(p, i) /\ ~Check(p, i) /\ ~Posted(p, i) /\ ~PostThrows(p, i)
    BY <1>1 DEF Start, Check, Posted, PostThrows
<1>8. ~PassOver(p, i)
    <2>1. tick[p][i] \in Tick /\ tick[p][i].results # <<>>
        BY <1>1, <1>2, BotTypes DEF BotInv, Consistent
    <2>2. Tail(tick[p][i].results) \in Seq(Result)
        BY <2>1 DEF Tick
    <2>3. PassOver(p, i) => tick'[p][i] = Routing(Tail(tick[p][i].results))
        BY <1>2 DEF PassOver
    <2> QED
        BY <1>1, <1>6, <2>2, <2>3
<1>9. Post(p, i)
    BY <1>4, <1>5, <1>7, <1>8 DEF TickStep
<1> QED
    BY <1>1, <1>9 DEF Post

(* The router's state and the ticks keep their shapes.                     *)
THEOREM BotTypeCorrect == BotSpec => []BotTypeOK
<1>1. BotInv => BotTypeOK
    BY DEF BotInv
<1> QED
    BY <1>1, BotInvHolds, PTL

(* Whatever ticks overlap, a failure posted within the cooldown is not     *)
(* posted again unless a recovery was posted between.                      *)
THEOREM CooldownIsQuiet == BotSpec => QuietWithinCooldown
<1>1. BotInv /\ [BotNext]_botVars =>
        \A c \in Categories :
            Begins(c, FALSE) /\ posts[c].last = "failing" => posts[c].age = COOLDOWN
    <2> SUFFICES ASSUME BotInv, [BotNext]_botVars, NEW c \in Categories,
                        Begins(c, FALSE), posts[c].last = "failing"
                 PROVE  posts[c].age = COOLDOWN
        OBVIOUS
    <2>1. ~NothingToSay([category |-> c, healthy |-> FALSE])
        BY OnlyPostBegins
    <2>2. state[c].isFailing /\ posts[c].age = state[c].age /\ state[c].age \in 0..COOLDOWN
        BY BotTypes DEF BotInv, StateKnowsPosts, Known
    <2>3. ~(state[c].age < COOLDOWN)
        BY <2>1, <2>2 DEF NothingToSay
    <2> QED
        BY <2>2, <2>3, AlertBotAssumption
<1> QED
    BY <1>1, BotInvHolds, PTL DEF BotSpec, QuietWithinCooldown

(* Whatever ticks overlap, a recovery is posted only when the last post in *)
(* its category was of a failure: never first, never twice.                *)
THEOREM RecoveriesAnswerFailures == BotSpec => RecoveryAnswersFailure
<1>1. BotInv /\ [BotNext]_botVars =>
        \A c \in Categories : Begins(c, TRUE) => posts[c].last = "failing"
    <2> SUFFICES ASSUME BotInv, [BotNext]_botVars, NEW c \in Categories, Begins(c, TRUE)
                 PROVE  posts[c].last = "failing"
        OBVIOUS
    <2>1. ~NothingToSay([category |-> c, healthy |-> TRUE])
        BY OnlyPostBegins
    <2>2. state[c].isFailing
        BY <2>1 DEF NothingToSay
    <2> QED
        BY <2>2 DEF BotInv, StateKnowsPosts
<1> QED
    BY <1>1, BotInvHolds, PTL DEF BotSpec, RecoveryAnswersFailure
================================================================================
