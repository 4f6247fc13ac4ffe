------------------------------- MODULE AlertBot -------------------------------
(***************************************************************************)
(* The Discord alert bot: five pollers on timers, one AlertRouter that     *)
(* turns their results into posts, a webhook that may lose them.  A timer  *)
(* starts a tick whether or not the poller's earlier ticks have ended, so  *)
(* ticks of one poller overlap, each waiting for the network at a check or *)
(* at a post.  The router's state is written before the post is awaited.   *)
(* Severities, texts and the bot's own start and stop posts are left out.  *)
(***************************************************************************)
EXTENDS Naturals, Sequences

CONSTANTS
    Pollers,    \* the pollers that run
    Ticks,      \* bound: ticks of one poller under way at a time
    COOLDOWN    \* alertCooldownMs: 5 minutes

AllPollers == {"indexer", "oracle", "program", "rpc", "escrow"}

ASSUME AlertBotAssumption ==
    /\ Pollers \subseteq AllPollers
    /\ COOLDOWN \in Nat \ {0}

CategoriesOf(p) ==
    CASE p = "indexer" -> {"indexer"}
      [] p = "oracle"  -> {"oracle"}
      [] p = "program" -> {"program:holdfast", "program:escrow"}
      [] p = "rpc"     -> {"rpc", "rpc:slot-lag", "rpc:stalled"}
      [] p = "escrow"  -> {"escrow-rpc"}

Categories == UNION {CategoriesOf(p) : p \in Pollers}

(* What can be wrong with the world.  Without the RPC node the escrow and  *)
(* program pollers fail too.                                               *)
Conditions == (Categories \ {"escrow-rpc"}) \cup {"rpc"}

VARIABLES
    down,       \* the conditions that hold
    primed,     \* RpcPoller.lastConfirmedSlot is set
    tick,       \* the ticks under way
    state,      \* AlertRouter.state; age: time since lastAlertedAt, up to COOLDOWN
    posts       \* the last post begun in each category (a ghost)

botVars == <<down, primed, tick, state, posts>>

Result == [category : Categories, healthy : BOOLEAN]
Idle   == [phase |-> "idle", results |-> <<>>]

--------------------------------------------------------------------------------
Fails(c) ==
    \/ c \in down
    \/ c \in {"program:holdfast", "program:escrow", "escrow-rpc"} /\ "rpc" \in down

Observe(c) == [category |-> c, healthy |-> ~Fails(c)]

(* What check() returns.  The RPC poller reports an unreachable node alone *)
(* and never reports it healthy; it judges the chain's progress from its   *)
(* second poll on.  The escrow poller only ever reports that it cannot     *)
(* list signatures: the patterns it looks for are anchored at the start of *)
(* a log line, and a line begins with "Program log: ".                     *)
CheckResults(p) ==
    CASE p = "program" -> <<Observe("program:holdfast"), Observe("program:escrow")>>
      [] p = "rpc" -> IF Fails("rpc") THEN <<Observe("rpc")>>
                      ELSE IF primed THEN <<Observe("rpc:slot-lag"), Observe("rpc:stalled")>>
                      ELSE <<Observe("rpc:slot-lag")>>
      [] p = "escrow" -> IF Fails("escrow-rpc") THEN <<Observe("escrow-rpc")>> ELSE <<>>
      [] OTHER -> <<Observe(p)>>

--------------------------------------------------------------------------------
BotInit ==
    /\ down = {}
    /\ primed = FALSE
    /\ tick = [p \in Pollers |-> [i \in Ticks |-> Idle]]
    /\ state = [c \in Categories |-> [isFailing |-> FALSE, age |-> COOLDOWN]]
    /\ posts = [c \in Categories |-> [last |-> "none", age |-> COOLDOWN]]

(* The world: something breaks, something is repaired, time passes.        *)
Change(c) ==
    /\ down' = IF c \in down THEN down \ {c} ELSE down \cup {c}
    /\ UNCHANGED <<primed, tick, state, posts>>

Older(age) == IF age < COOLDOWN THEN age + 1 ELSE age

Elapse ==
    /\ state' = [c \in Categories |-> [state[c] EXCEPT !.age = Older(@)]]
    /\ posts' = [c \in Categories |-> [posts[c] EXCEPT !.age = Older(@)]]
    /\ UNCHANGED <<down, primed, tick>>

(* setInterval: runPoller is called and check() is awaited.                *)
Start(p, i) ==
    /\ tick[p][i].phase = "idle"
    /\ tick' = [tick EXCEPT ![p][i] = [phase |-> "checking", results |-> <<>>]]
    /\ UNCHANGED <<down, primed, state, posts>>

Routing(results) == IF results = <<>> THEN Idle ELSE [phase |-> "routing", results |-> results]

Check(p, i) ==
    /\ tick[p][i].phase = "checking"
    /\ tick' = [tick EXCEPT ![p][i] = Routing(CheckResults(p))]
    /\ primed' = (primed \/ (p = "rpc" /\ ~Fails("rpc")))
    /\ UNCHANGED <<down, state, posts>>

(* Variant: no repeat as long as the failure lasts.                        *)
NothingNew(r) ==
    IF r.healthy THEN ~state[r.category].isFailing ELSE state[r.category].isFailing

(* The router passes over a result: healthy and not known to be failing,   *)
(* or failing and alerted about within the cooldown.                       *)
NothingToSay(r) ==
    IF r.healthy THEN ~state[r.category].isFailing
    ELSE state[r.category].isFailing /\ state[r.category].age < COOLDOWN

PassOver(p, i) ==
    /\ tick[p][i].phase = "routing"
    /\ NothingToSay(Head(tick[p][i].results))
    /\ tick' = [tick EXCEPT ![p][i] = Routing(Tail(@.results))]
    /\ UNCHANGED <<down, primed, state, posts>>

(* Variant: the state is to be written when the post is out.               *)
PostUnrecorded(p, i) ==
    LET r == Head(tick[p][i].results)
    IN  /\ tick[p][i].phase = "routing"
        /\ ~NothingToSay(r)
        /\ tick' = [tick EXCEPT ![p][i].phase = "posting"]
        /\ posts' = [posts EXCEPT ![r.category] =
                       [last |-> IF r.healthy THEN "recovered" ELSE "failing", age |-> 0]]
        /\ UNCHANGED <<down, primed, state>>

(* Variant: a recovery post leaves the failure on record.                  *)
PostStillFailing(p, i) ==
    LET r == Head(tick[p][i].results)
    IN  /\ tick[p][i].phase = "routing"
        /\ ~NothingToSay(r)
        /\ tick' = [tick EXCEPT ![p][i].phase = "posting"]
        /\ state' = [state EXCEPT ![r.category] = [isFailing |-> TRUE, age |-> 0]]
        /\ posts' = [posts EXCEPT ![r.category] =
                       [last |-> IF r.healthy THEN "recovered" ELSE "failing", age |-> 0]]
        /\ UNCHANGED <<down, primed>>

(* It records the new state and begins to post it.                         *)
Post(p, i) ==
    LET r == Head(tick[p][i].results)
    IN  /\ tick[p][i].phase = "routing"
        /\ ~NothingToSay(r)
        /\ tick' = [tick EXCEPT ![p][i].phase = "posting"]
        /\ state' = [state EXCEPT ![r.category] = [isFailing |-> ~r.healthy, age |-> 0]]
        /\ posts' = [posts EXCEPT ![r.category] =
                       [last |-> IF r.healthy THEN "recovered" ELSE "failing", age |-> 0]]
        /\ UNCHANGED <<down, primed>>

(* postWithRetry returns: Discord has the post, or answered 429 to all of  *)
(* its attempts, which is no error.                                        *)
Posted(p, i) ==
    /\ tick[p][i].phase = "posting"
    /\ tick' = [tick EXCEPT ![p][i] = Routing(Tail(@.results))]
    /\ UNCHANGED <<down, primed, state, posts>>

(* Variant: the results not yet routed are left behind.                     *)
PostThrowsKeeping(p, i) ==
    /\ tick[p][i].phase = "posting"
    /\ tick' = [tick EXCEPT ![p][i].phase = "idle"]
    /\ UNCHANGED <<down, primed, state, posts>>

(* It throws: runPoller catches it, and the tick's other results are lost. *)
PostThrows(p, i) ==
    /\ tick[p][i].phase = "posting"
    /\ tick' = [tick EXCEPT ![p][i] = Idle]
    /\ UNCHANGED <<down, primed, state, posts>>

TickStep(p, i) ==
    \/ Start(p, i) \/ Check(p, i) \/ PassOver(p, i) \/ Post(p, i)
    \/ Posted(p, i) \/ PostThrows(p, i)

BotNext ==
    \/ \E c \in Conditions : Change(c)
    \/ Elapse
    \/ \E p \in Pollers, i \in Ticks : TickStep(p, i)

(* Timers fire, requests return, time passes; not every post throws.       *)
BotFairness ==
    /\ WF_botVars(Elapse)
    /\ \A p \in Pollers, i \in Ticks : WF_botVars(TickStep(p, i)) /\ SF_botVars(Posted(p, i))

BotSpec == BotInit /\ [][BotNext]_botVars /\ BotFairness

--------------------------------------------------------------------------------
BotTypeOK ==
    /\ down \subseteq Conditions
    /\ primed \in BOOLEAN
    /\ tick \in [Pollers -> [Ticks -> [phase : {"idle", "checking", "routing", "posting"},
                                      results : Seq(Result)]]]
    /\ \A p \in Pollers, i \in Ticks :
         tick[p][i].phase \in {"routing", "posting"} <=> tick[p][i].results # <<>>
    /\ state \in [Categories -> [isFailing : BOOLEAN, age : 0..COOLDOWN]]
    /\ posts \in [Categories -> [last : {"none", "failing", "recovered"}, age : 0..COOLDOWN]]

Begins(c, healthy) ==
    \E p \in Pollers, i \in Ticks :
        /\ tick[p][i].phase = "routing"
        /\ tick'[p][i].phase = "posting"
        /\ Head(tick[p][i].results) = [category |-> c, healthy |-> healthy]

(* No failure is posted twice within the cooldown unless a recovery was    *)
(* posted between, though overlapping ticks see the same failure.          *)
QuietWithinCooldown ==
    [][\A c \in Categories :
         Begins(c, FALSE) /\ posts[c].last = "failing" => posts[c].age = COOLDOWN]_botVars

(* A recovery is posted only as the answer to a failure that was, and only *)
(* once, though overlapping ticks see the same recovery.                   *)
RecoveryAnswersFailure ==
    [][\A c \in Categories : Begins(c, TRUE) => posts[c].last = "failing"]_botVars

(* A failure that lasts is posted again and again, so a post that is lost  *)
(* is made up for after the cooldown, and one check's trouble with Discord *)
(* does not silence the others for good.                                   *)
LastingFailureIsPosted ==
    \A p \in Pollers : \A c \in CategoriesOf(p) :
        <>[](Fails(c) /\ (c \in {"rpc:slot-lag", "rpc:stalled"} => ~Fails("rpc")))
            => []<>(\E i \in Ticks : tick[p][i].phase = "posting"
                                      /\ Head(tick[p][i].results) = [category |-> c, healthy |-> FALSE])
================================================================================
