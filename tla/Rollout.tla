-------------------------------- MODULE Rollout --------------------------------
(***************************************************************************)
(* What the clients of a node may expect of its functions, without the      *)
(* table of the management service, the store, the mutex and Docker: a      *)
(* change that was asked for takes effect in one step, once, for its own    *)
(* function and with its own version, or is given up.  Nothing else changes *)
(* what is routed, short of the end of the proxy or of the service.  In     *)
(* particular a version that was replaced or deleted never comes back.      *)
(***************************************************************************)
CONSTANTS
  Name,     \* function names
  Version,  \* what uploads bring
  Empty,    \* the versions that are routed to nothing
  Client,   \* who asks for changes, one at a time
  None

VARIABLES
  routed,   \* [Name -> Version or None]: the version that answers calls
  stock,    \* the versions nobody has brought yet
  about,    \* [Client -> Name or None]: the function a change is asked for
  version   \* [Client -> Version or None]: its new version, None to delete it

vars == <<routed, stock, about, version>>

Nothing == [n \in Name |-> None]
Nobody  == [c \in Client |-> None]

Init == routed = Nothing /\ stock = Version /\ about = Nobody /\ version = Nobody

Ask(c) ==
  /\ about[c] = None /\ about'[c] # None
  /\ \E n \in Name : about' = [about EXCEPT ![c] = n]
  /\ \E v \in stock \cup {None} :
       /\ version' = [version EXCEPT ![c] = v]
       /\ stock' = stock \ {v}
  /\ UNCHANGED routed

Settle(c) ==
  /\ about[c] # None /\ about'[c] = None
  /\ about' = [about EXCEPT ![c] = None]
  /\ version' = [version EXCEPT ![c] = None]

TakeEffect(c) ==
  /\ Settle(c)
  /\ routed' = [routed EXCEPT ![about[c]] = IF version[c] \in Empty THEN None ELSE version[c]]
  /\ UNCHANGED stock

\* A version that never got anywhere can be brought again.
GiveUp(c) ==
  /\ Settle(c)
  /\ stock' \in {stock, stock \cup ({version[c]} \ {None})}
  /\ UNCHANGED routed

\* The proxy ends.
Lose == routed' = Nothing /\ UNCHANGED <<stock, about, version>>

\* The service ends, or starts with new versions.
Restart ==
  /\ routed' = Nothing /\ about' = Nobody /\ version' = Nobody
  /\ stock' \in SUBSET Version

Next ==
  \/ \E c \in Client : Ask(c) \/ TakeEffect(c) \/ GiveUp(c)
  \/ Lose \/ Restart

Spec == Init /\ [][Next]_vars
===============================================================================
