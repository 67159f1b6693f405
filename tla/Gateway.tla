------------------------------ MODULE Gateway ------------------------------
(***************************************************************************)
(* A browser that shows the dashboard of gameops gateway, the gateway, and *)
(* the requests it makes of a host: src/gateway/handlers.go, hostclient.go *)
(* and templates.go over HostControl.                                      *)
(*                                                                         *)
(* The page asks for every card again every few seconds and does not wait  *)
(* for the answers, so answers overtake each other.  A button makes two    *)
(* calls to the host, each with a deadline of its own.  A deadline that    *)
(* passes ends the handler with an error page and cancels the request's    *)
(* context; the host goes on with what it was doing.                       *)
(*                                                                         *)
(* Time is counted in ticks of at least the 2 s of a dial.  What a call    *)
(* that starts or stops a server waits for takes ticks: an RCON exchange   *)
(* that is not answered, and the stop wait.  Its other steps are taken     *)
(* before the next tick, which supposes that taskkill and start commands   *)
(* are back at once.  Status calls may be late at any step.                *)
(***************************************************************************)
EXTENDS HostControl

CONSTANTS
    ReadTimeout,    \* readTimeout of hostclient.go
    ActionTimeout,  \* actionTimeout
    RconTime        \* the deadlines of one RCON exchange together

\* actionTimeout has "comfortable headroom" over stopPollTimeout; it is 90 s,
\* over 15 s for the RCON exchange and 60 s for the wait.  readTimeout is 5 s.
ASSUME HeadroomAssumption ==
    /\ {ReadTimeout, ActionTimeout, RconTime} \subseteq Nat \ {0}
    /\ ActionTimeout > RconTime + StopTimeout
    /\ ReadTimeout =< ActionTimeout

VARIABLES
    phase,  \* where the gateway's handler of a browser's request is
    inst,   \* the instance in its path
    clock,  \* what is left of the deadline of its call
    busy,   \* what is left of the host's RCON exchange for that call
    card,   \* what the page shows of each instance
    seen    \* history: whether the port was open, since a status call began

page == <<phase, inst, clock, card>>
gvars == <<vars, page, busy, seen>>

\* idle    no request in this slot      acted   handleAction, between its calls
\* acting  handleAction, first call     asking  waiting for a status
Stages == {"idle", "acting", "acted", "asking"}

Cards == {"loading", "online", "offline", "error"}

GatewayInit ==
    /\ Init
    /\ phase = [p \in Requests |-> "idle"]
    /\ inst = [p \in Requests |-> None]
    /\ clock = [p \in Requests |-> 0]
    /\ busy = [p \in Requests |-> 0]
    /\ card = [i \in Servers |-> "loading"]
    /\ seen = [p \in Requests |-> {}]

\* Mutated form of Deadline: all calls share one.
DeadlineShared(v) == ReadTimeout

Deadline(v) == IF v = "status" THEN ReadTimeout ELSE ActionTimeout

\* A handler makes a call of the host, about v, and waits in a given phase.
Calls(p, v, i, next) ==
    /\ phase' = [phase EXCEPT ![p] = next]
    /\ inst' = [inst EXCEPT ![p] = i]
    /\ clock' = [clock EXCEPT ![p] = Deadline(v)]

\* It answers the browser, which puts the answer into the card.
Shows(p, what) ==
    /\ phase' = [phase EXCEPT ![p] = "idle"]
    /\ inst' = [inst EXCEPT ![p] = None]
    /\ clock' = [clock EXCEPT ![p] = 0]
    /\ card' = [card EXCEPT ![inst[p]] = what]

\* The call of a button is at a step that is not taken late.
Prompt(p) ==
    /\ phase[p] \in {"acting", "acted"}
    /\ \/ step[p] \notin {"send", "await"}
       \/ step[p] = "send" /\ busy[p] = 0
       \/ step[p] = "await" /\ left[p] = 0
       \/ phase[p] = "acting" /\ clock[p] = 0

-----------------------------------------------------------------------------
(* The browser.                                                            *)

\* Mutated form of Refresh: the page stops asking after an error.
RefreshUnlessError(p, i) ==
    /\ phase[p] = "idle"
    /\ card[i] # "error"
    /\ Ask(p, i)
    /\ Calls(p, "status", i, "asking")
    /\ UNCHANGED <<card, busy>>

\* The timer of the page asks for a card: handleFragment.
Refresh(p, i) ==
    /\ phase[p] = "idle"
    /\ Ask(p, i)
    /\ Calls(p, "status", i, "asking")
    /\ UNCHANGED <<card, busy>>

\* A button: handleAction.  Time passes between one click and the next.
Click(p, v, i) ==
    /\ phase[p] = "idle"
    /\ \A q \in Requests : ~Prompt(q)
    /\ Act(p, v, i)
    /\ Calls(p, v, i, "acting")
    /\ UNCHANGED <<card, busy>>

\* The page is closed: nobody waits for the answer.
Leave(p) ==
    /\ phase[p] \in {"acting", "asking"}
    /\ Cancel(p)
    /\ phase' = [phase EXCEPT ![p] = "idle"]
    /\ inst' = [inst EXCEPT ![p] = None]
    /\ clock' = [clock EXCEPT ![p] = 0]
    /\ UNCHANGED <<card, busy>>

-----------------------------------------------------------------------------
(* The gateway.                                                            *)

\* The host's answer to the first call of handleAction.
ActionAnswered(p) ==
    /\ phase[p] = "acting"
    /\ at[p] = "reply"
    /\ Reply(p)
    /\ IF result[p] = "ok"
       THEN /\ phase' = [phase EXCEPT ![p] = "acted"]
            /\ clock' = [clock EXCEPT ![p] = 0]
            /\ UNCHANGED <<inst, card>>
       ELSE Shows(p, "error")
    /\ UNCHANGED busy

\* handleAction goes on to ask for the status.
AskNext(p) ==
    /\ phase[p] = "acted"
    /\ Ask(p, inst[p])
    /\ Calls(p, "status", inst[p], "asking")
    /\ UNCHANGED <<card, busy>>

\* The host's answer to a status call: a fragment.
StatusAnswered(p) ==
    /\ phase[p] = "asking"
    /\ at[p] = "reply"
    /\ Reply(p)
    /\ Shows(p, IF online[p] THEN "online" ELSE "offline")
    /\ busy' = [busy EXCEPT ![p] = 0]

\* The deadline of a call: "502 Bad Gateway" instead of a fragment.
Expire(p) ==
    /\ phase[p] \in {"acting", "asking"}
    /\ clock[p] = 0
    /\ Cancel(p)
    /\ Shows(p, "error")
    /\ UNCHANGED busy

-----------------------------------------------------------------------------
(* The host.                                                               *)

\* A request of the host is inside an RCON exchange.
Exchanging(p) ==
    \/ step[p] = "send"
    \/ at[p] = "reply" /\ verb[p] = "status" /\ online[p]

Exchanges(p) ==
    busy' = [busy EXCEPT ![p] = IF ~Exchanging(p)' THEN 0
                                ELSE IF Exchanging(p) THEN @ ELSE RconTime]

\* Nobody waits for this answer any more.
AnswersNobody(p) == phase[p] = "idle" /\ Reply(p)

Serves(p) ==
    /\ \/ StopReturned(p)
       \/ RestartStarts(p)
       \/ StartReturned(p)
       \/ StatusDial(p)
       \/ StatusLock(p)
       \/ AnswersNobody(p)
       \/ CallStep(p)
    /\ Exchanges(p)
    /\ UNCHANGED page

GatewayServerMoves(i) ==
    /\ ServerMoves(i)
    /\ UNCHANGED <<page, busy>>

GatewayTick ==
    /\ \A p \in Requests : ~Prompt(p)
    /\ Tick
    /\ clock' = [p \in Requests |-> IF clock[p] > 0 THEN clock[p] - 1 ELSE 0]
    /\ busy' = [p \in Requests |-> IF busy[p] > 0 THEN busy[p] - 1 ELSE 0]
    /\ UNCHANGED <<phase, inst, card>>

\* What the port did while a status call was under way.
Sees ==
    seen' = [p \in Requests |->
               IF phase'[p] # "asking" THEN {}
               ELSE (IF phase[p] = "asking" THEN seen[p] ELSE {})
                    \union {Listening(backend'[inst'[p]])}]

GatewayStep(p) ==
    \/ ActionAnswered(p)
    \/ AskNext(p)
    \/ StatusAnswered(p)
    \/ Expire(p)
    \/ Serves(p)

GatewayNext ==
    /\ \/ \E p \in Requests, i \in Servers :
             Refresh(p, i) \/ \E v \in Verbs : Click(p, v, i)
       \/ \E p \in Requests : GatewayStep(p) \/ Leave(p)
       \/ \E i \in Servers : GatewayServerMoves(i)
       \/ GatewayTick
    /\ Sees

GatewaySpec == GatewayInit /\ [][GatewayNext]_gvars

\* Goroutines go on and clocks run; the page stays open, so its timer asks
\* for every card again and again.  Time does not stand still because prompt
\* steps keep coming.  Unlike the rest, that taskkill and start commands return
\* is not the code's doing but supposed of what is configured.
GatewayFairness ==
    /\ \A p \in Requests : WF_gvars(GatewayStep(p) /\ Sees)
    /\ SF_gvars(GatewayTick /\ Sees)
    /\ \A p \in Requests, i \in Servers : SF_gvars(Refresh(p, i) /\ Sees)

GatewayFairSpec == GatewaySpec /\ GatewayFairness

-----------------------------------------------------------------------------
(* Properties.                                                             *)

\* Every variable of the host and of the gateway has its type.
GatewayTypeOK ==
    /\ TypeOK
    /\ phase \in [Requests -> Stages]
    /\ inst \in [Requests -> Servers \union {None}]
    /\ clock \in [Requests -> 0 .. ActionTimeout]
    /\ busy \in [Requests -> 0 .. RconTime]
    /\ card \in [Servers -> Cards]
    /\ seen \in [Requests -> SUBSET BOOLEAN]

\* The deadline of a call that starts, stops or restarts a server never
\* passes, with RCON slow and the stop wait used up: no "slow-but-successful
\* stop" is "reported to the admin as a failed (502) request".
ActionNotCutOff == \A p \in Requests : phase[p] = "acting" => clock[p] > 0

\* A fragment shows what was the case at some moment since the browser asked
\* for it, although an earlier request may have been cancelled, may have
\* timed out, or may still be at work on the same controller.
FragmentIsTrue ==
    \A p \in Requests :
        phase[p] = "asking" /\ at[p] \in {"lock", "reply"} => online[p] \in seen[p]

\* An online backend whose RCON does not answer is reported online "instead
\* of failing the whole status check": the deadline of a status call does not
\* pass while the host, which has found the backend online, waits for RCON.
OnlineIsShown ==
    \A p \in Requests : phase[p] = "asking" /\ clock[p] = 0 => busy[p] = 0

\* The uptime ("zero when offline") starts anew only for a status call during
\* which the backend was offline.
UptimeSurvives ==
    [][\A i \in Servers :
          onlineSince[i] /\ ~onlineSince'[i] =>
              \E p \in Requests : phase[p] = "asking" /\ inst[p] = i /\ FALSE \in seen[p]]_gvars

\* Answers that come late overwrite newer ones, and errors replace a card and
\* its buttons; the page puts both right.  Once a server stays up, nobody
\* clicks or leaves and no status call runs into its deadline, its card
\* shows it.
CardSettles ==
    \A i \in Servers :
        <>[](/\ Listening(backend[i])
             /\ \A p \in Requests :
                   /\ phase[p] \notin {"acting", "acted"}
                   /\ ~(phase[p] = "asking" /\ clock[p] = 0)
                   /\ ~cancelled[p])
            => <>[](card[i] = "online")

=============================================================================
