----------------------------- MODULE PowerSwitch -----------------------------
(***************************************************************************)
(* What the registry can expect of its PowerController: a set of outlets    *)
(* that PowerOn and PowerOff switch one at a time.  A call that reports     *)
(* success has switched its own outlet at some moment between call and      *)
(* return; a call that reports an error has switched none.  The exception   *)
(* are faulty outlets: an error may come after the switch.  Such an outlet  *)
(* is then astray, and goes back to where it was before that call at the    *)
(* next switch of an outlet on the same board, unless a call of its own     *)
(* comes first.                                                             *)
(***************************************************************************)
CONSTANTS
  Outlet, Caller, NoOutlet,
  Faulty,    \* outlets whose call may report an error after the switch
  Board      \* [Outlet -> the set of outlets that one message sets together]

VARIABLES
  outlets,   \* [Outlet -> BOOLEAN]: which outlets are on
  astray,    \* outlets that a call has switched and reported as failed
  call,      \* [Caller -> the outlet and the position asked for]
  phase      \* [Caller -> {"idle", "called", "ok", "err"}]

vars == <<outlets, astray, call, phase>>

Request == [outlet : Outlet \cup {NoOutlet}, on : BOOLEAN]

Init ==
  /\ outlets \in [Outlet -> BOOLEAN]
  /\ astray = {}
  /\ call \in [Caller -> Request]
  /\ phase = [c \in Caller |-> "idle"]

Call(c, request) ==
  /\ phase[c] = "idle"
  /\ phase' = [phase EXCEPT ![c] = "called"]
  /\ call' = [call EXCEPT ![c] = request]
  /\ UNCHANGED <<outlets, astray>>

\* The call reaches its outlet, and takes back what is astray on the board.
Sets(c) ==
  LET own  == call[c].outlet
      back == astray \cap Board[own]
  IN /\ phase[c] = "called" /\ own \in Outlet
     /\ outlets' = [o \in Outlet |->
                      IF o = own THEN call[c].on
                      ELSE IF o \in back THEN ~outlets[o] ELSE outlets[o]]
     /\ UNCHANGED call

\* What stays astray when the call reaches its outlet.
Elsewhere(c) == astray \ Board[call[c].outlet]

\* Where the outlet of the call would be without the calls that failed late.
Settled(c) ==
  LET own == call[c].outlet IN IF own \in astray THEN ~outlets[own] ELSE outlets[own]

Switch(c) ==
  /\ Sets(c)
  /\ astray' = Elsewhere(c)
  /\ phase' = [phase EXCEPT ![c] = "ok"]

\* An error before the outlet is reached.
Fail(c) ==
  /\ phase[c] = "called"
  /\ phase' = [phase EXCEPT ![c] = "err"]
  /\ UNCHANGED <<outlets, astray, call>>

\* An error after it.
FailLate(c) ==
  /\ Sets(c) /\ call[c].outlet \in Faulty
  /\ astray' = Elsewhere(c) \cup IF call[c].on # Settled(c) THEN {call[c].outlet} ELSE {}
  /\ phase' = [phase EXCEPT ![c] = "err"]

Return(c) ==
  /\ phase[c] \in {"ok", "err"}
  /\ phase' = [phase EXCEPT ![c] = "idle"]
  /\ UNCHANGED <<outlets, astray, call>>

\* The process ends and starts again: calls are forgotten, outlets stay.
Restart ==
  /\ phase' = [c \in Caller |-> "idle"]
  /\ astray' = {}
  /\ UNCHANGED <<outlets, call>>

Next ==
  \/ \E c \in Caller, request \in Request : Call(c, request)
  \/ \E c \in Caller : Switch(c) \/ Fail(c) \/ FailLate(c) \/ Return(c)
  \/ Restart

Spec == Init /\ [][Next]_vars
==============================================================================
