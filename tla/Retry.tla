------------------------------- MODULE Retry -------------------------------
(***************************************************************************)
(* The retry-with-backoff program over Clock and Network                   *)
(* (src/examples/freer_retry_program.hpp), interpreted by run_task.        *)
(*                                                                         *)
(* The program asks for the time, then sends a request up to MaxAttempts   *)
(* times, sleeping n seconds after failed attempt n.  A table of bound     *)
(* functions is the program here, so this module is FreerTask at the one   *)
(* table retry_program builds, with the scripted mock of the example as    *)
(* the handler: a network that fails the first few sends, and one of its   *)
(* two clocks.  These handlers count and advance the clock when they are   *)
(* called and give senders that are just their answer, so Deferred is      *)
(* empty here.  Any handler may also throw, and any sender complete with   *)
(* an error or stopped.                                                    *)
(***************************************************************************)
EXTENDS FreerTask, Integers, SequencesExt

CONSTANTS
  MaxAttempts,    \* 3 in the example
  ReplySize,      \* the length of "hello-reply"
  StartTimes,     \* what the clock may show at first
  Failures        \* how many sends the network may fail before it answers

ASSUME RetryAssumption ==
  /\ MaxAttempts \in Nat \ {0}
  /\ ReplySize \in Nat
  /\ StartTimes \subseteq Nat
  /\ Failures \subseteq Nat

(* The operations.  The request is always the same. *)
Now == [name |-> "Now"]
SendHello == [name |-> "Send"]
SleepFor(d) == [name |-> "SleepFor", d |-> d]

RetryOp == {Now, SendHello} \cup {SleepFor(d) : d \in 1 .. MaxAttempts + 1}

(* The responses, and the program's result. *)
Time(t) == [kind |-> "time", t |-> t]
Slept == [kind |-> "unit"]
Reply == [kind |-> "reply", size |-> ReplySize]
NetError == [kind |-> "error"]
Result(n) == [kind |-> "int", n |-> n]

(* Bounds that no script reaches: on the clock and on the sends it counts. *)
LastTime == Max(StartTimes) + 1 + MaxAttempts * (MaxAttempts + 1)
LastSend == MaxAttempts + 2

RetryVal ==
  {Time(t) : t \in 0 .. LastTime} \cup {Slept, Reply, NetError, Result(-1), Result(ReplySize)}

(* The functions the program binds, each with what it captured. *)
GotTime == [name |-> "got_time"]
GotReply(attempt) == [name |-> "got_reply", attempt |-> attempt]
Woken(attempt) == [name |-> "woken", attempt |-> attempt]

RetryFn ==
  {GotTime} \cup {GotReply(n) : n \in 1 .. MaxAttempts + 1} \cup {Woken(n) : n \in 1 .. MaxAttempts}

(* mbind(send<Row>(Send{request{"hello"}}), ...) *)
RetryAttempt(attempt) == BindLater(Send(SendHello), GotReply(attempt))

(* mbind(send<Row>(Now{}), ...) *)
RetryProgram == BindLater(Send(Now), GotTime)

(* Mutant: the comparison would let one more attempt through. *)
OnReplyOneMore(attempt, res) ==
  IF res = Reply THEN Pure(Result(ReplySize))
  ELSE IF attempt > MaxAttempts THEN Pure(Result(-1))
  ELSE BindLater(Send(SleepFor(attempt)), Woken(attempt))

(* Mutant: the last attempt would not be made. *)
OnReplyOneLess(attempt, res) ==
  IF res = Reply THEN Pure(Result(ReplySize))
  ELSE IF attempt + 1 >= MaxAttempts THEN Pure(Result(-1))
  ELSE BindLater(Send(SleepFor(attempt)), Woken(attempt))

(* Mutant: the backoff would not grow. *)
OnReplySameBackoff(attempt, res) ==
  IF res = Reply THEN Pure(Result(ReplySize))
  ELSE IF attempt >= MaxAttempts THEN Pure(Result(-1))
  ELSE BindLater(Send(SleepFor(1)), Woken(attempt))

(* The function bound to a Send: succeed, give up, or back off and try again. *)
OnReply(attempt, res) ==
  IF res = Reply THEN Pure(Result(ReplySize))
  ELSE IF attempt >= MaxAttempts THEN Pure(Result(-1))
  ELSE BindLater(Send(SleepFor(attempt)), Woken(attempt))

RetryCode ==
  [fn \in RetryFn |-> [v \in RetryVal |->
     CASE fn.name = "got_time" -> RetryAttempt(1)
       [] fn.name = "got_reply" -> OnReply(fn.attempt, v)
       [] fn.name = "woken" -> RetryAttempt(fn.attempt + 1)]]

-----------------------------------------------------------------------------
(***************************************************************************)
(* RetryScript: how many sends were answered, what the clock shows, (a     *)
(* constant 2 in the example) how many sends are to fail, and whether the  *)
(* clock is the live-shaped one of Run 3, which a reading moves.           *)
(***************************************************************************)
RetryScript ==
  [send_count : 0 .. LastSend, virtual_time : 0 .. LastTime, failing : Failures, live : BOOLEAN]

InitScript ==
  [send_count : {0}, virtual_time : StartTimes, failing : Failures, live : BOOLEAN]

(* The three responders of retry_coalgebra: the next state and the response. *)
retry_coalgebra(s, op) ==
  CASE op.name = "Now" -> <<s, Time(s.virtual_time)>>
    [] op.name = "SleepFor" -> <<[s EXCEPT !.virtual_time = @ + op.d], Slept>>
    [] op.name = "Send" ->
         LET next == [s EXCEPT !.send_count = @ + 1]
         IN  <<next, IF next.send_count <= s.failing THEN NetError ELSE Reply>>

(* make_network_handler counts its calls in a variable of the caller's. *)
network_handler(s) ==
  <<[s EXCEPT !.send_count = @ + 1], IF s.send_count + 1 < s.failing + 1 THEN NetError ELSE Reply>>

(* Mutant: the clock would be set to the backoff. *)
clock_handler_setting(s, op) ==
  CASE op.name = "Now" ->
         <<[s EXCEPT !.virtual_time = IF s.live THEN @ + 1 ELSE @], Time(s.virtual_time)>>
    [] op.name = "SleepFor" -> <<[s EXCEPT !.virtual_time = op.d], Slept>>

(* make_virtual_clock_handler, or make_live_clock_handler, whose Now reads now++ *)
clock_handler(s, op) ==
  CASE op.name = "Now" ->
         <<[s EXCEPT !.virtual_time = IF s.live THEN @ + 1 ELSE @], Time(s.virtual_time)>>
    [] op.name = "SleepFor" -> <<[s EXCEPT !.virtual_time = @ + op.d], Slept>>

(* make_mock_handler, and the composition of Run 3 *)
mock_handler(s, op) == IF op = SendHello THEN network_handler(s) ELSE clock_handler(s, op)

(* A table of what an answer may be; outside the bounds there is none. *)
InBounds(answer) == {answer} \cap (RetryScript \X RetryVal)

MockHandler == [s \in RetryScript |-> [op \in RetryOp |-> InBounds(mock_handler(s, op))]]
RetryCoalgebra == [s \in RetryScript |-> [op \in RetryOp |-> InBounds(retry_coalgebra(s, op))]]

-----------------------------------------------------------------------------
Sends(l) == {i \in DOMAIN l : l[i].op = SendHello}

(***************************************************************************)
(* FD10's narrative: the time is fetched once, first; a send is either the *)
(* first or follows the backoff of the attempt before it; a backoff        *)
(* follows a send that failed, and its length is the number of sends that  *)
(* have failed.                                                            *)
(***************************************************************************)
BacksOffBetweenAttempts ==
  \A i \in DOMAIN log :
    LET before == SubSeq(log, 1, i - 1) IN
      CASE log[i].op = Now -> i = 1
        [] log[i].op = SendHello ->
             i = 2 \/ (i > 2 /\ log[i - 1].op = SleepFor(Cardinality(Sends(before))))
        [] OTHER ->
             /\ i > 2 /\ log[i - 1] = [op |-> SendHello, ans |-> NetError]
             /\ log[i].op = SleepFor(Cardinality(Sends(before)))

(***************************************************************************)
(* The program's value is the length of the reply to its last send, and -1 *)
(* only when all its attempts failed.                                      *)
(***************************************************************************)
ResultIsOfTheLastSend ==
  outcome = "returned" =>
    /\ log # <<>> /\ Last(log).op = SendHello
    /\ current = Pure(IF Last(log).ans = Reply THEN Result(ReplySize) ELSE Result(-1))
    /\ Last(log).ans # Reply => Cardinality(Sends(log)) = MaxAttempts

(* There is no further operation after a reply, nor after the last attempt. *)
NoFurtherAttempt ==
  [][(\E i \in DOMAIN log : log[i].ans = Reply) \/ Cardinality(Sends(log)) = MaxAttempts
       => log' = log]_vars

(* The time an operation adds to the clock, and what the log's first n lines added. *)
Backoff(op) == IF op.name = "SleepFor" THEN op.d ELSE 0

SleptIn(entry) == IF entry.ans # Refused THEN Backoff(entry.op) ELSE 0

SleptUpTo[n \in 0 .. Len(log)] ==
  IF n = 0 THEN 0 ELSE SleptUpTo[n - 1] + SleptIn(log[n])

(***************************************************************************)
(* What an operation without an answer may have added: a backoff counts    *)
(* from when the handler gives its sender, which then waits or fails; a    *)
(* handler that throws instead may or may not have counted it.             *)
(***************************************************************************)
SleptUnanswered ==
  CASE phase = "waiting" -> {Backoff(current.op)}
    [] phase # "waiting" /\ Last(log).ans = Refused ->
         {Backoff(Last(log).op)} \cup (IF sender = NoSender THEN {0} ELSE {})
    [] OTHER -> {0}

(***************************************************************************)
(* Virtual time: once the program has been told the time, the clock is     *)
(* ahead of it by the backoffs asked for, those that were slept and the    *)
(* one in flight or cut short, in every frame's copy of the handler; the   *)
(* live-shaped one is also moved by that one reading.                      *)
(***************************************************************************)
ClockAdvancesByBackoffs ==
  log # <<>> /\ log[1].ans # Refused =>
    \E d \in SleptUnanswered :
      hs.virtual_time = log[1].ans.t + (IF hs.live THEN 1 ELSE 0) + SleptUpTo[Len(log)] + d

=============================================================================
