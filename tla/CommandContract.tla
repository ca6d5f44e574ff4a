--------------------------- MODULE CommandContract ---------------------------
(***************************************************************************)
(* What the client promises of a command, whatever the scheduler, the      *)
(* outbound queue and the link do (CLIENT_CONTRACT.md, "Command transport  *)
(* retries"; ADR-0106): a command that was given up never comes back, its  *)
(* frame is handed to the transport only while the command is live and no  *)
(* other frame of it is there, it reaches the socket at most Limit times,  *)
(* and its caller is told one outcome, of which "ok" and "unknown" say     *)
(* truly that the panel may have acted.                                    *)
(***************************************************************************)
EXTENDS Integers

CONSTANTS Cmd, Limit, Outcome

VARIABLES
    fresh,    \* commands not issued yet
    live,     \* commands the client may still send
    transit,  \* commands with a frame handed to the transport, unwritten
    writes,   \* frames of the command written to the socket
    told      \* what the caller was told

vars == <<fresh, live, transit, writes, told>>

Acted == {"ok", "unknown", "cancelled_unknown"}

Init ==
    /\ fresh = Cmd /\ live = {} /\ transit = {}
    /\ writes = [c \in Cmd |-> 0]
    /\ told = [c \in Cmd |-> "none"]

Accept(c) ==
    /\ c \in fresh
    /\ fresh' = fresh \ {c} /\ live' = live \cup {c}
    /\ UNCHANGED <<transit, writes, told>>

Refuse(c) ==
    /\ c \in fresh
    /\ fresh' = fresh \ {c}
    /\ told' = [told EXCEPT ![c] = "refused"]
    /\ UNCHANGED <<live, transit, writes>>

Hand(c) ==
    /\ c \in live \ transit
    /\ transit' = transit \cup {c}
    /\ UNCHANGED <<fresh, live, writes, told>>

Write(c) ==
    /\ c \in live \cup transit
    /\ writes[c] < Limit[c]
    /\ writes' = [writes EXCEPT ![c] = @ + 1]
    /\ transit' = transit \ {c}
    /\ UNCHANGED <<fresh, live, told>>

\* Give up the commands of L and drop the frames of T.
GiveUp(L, T) ==
    /\ live' = live \ L /\ transit' = transit \ T
    /\ UNCHANGED <<fresh, writes, told>>

Tell(c, o, T) ==
    /\ c \notin fresh /\ told[c] = "none" /\ o # "none"
    /\ o \in Acted => writes[c] > 0
    /\ told' = [told EXCEPT ![c] = o]
    /\ live' = live \ {c} /\ transit' = transit \ T
    /\ UNCHANGED <<fresh, writes>>

Next ==
    \/ \E c \in Cmd : Accept(c) \/ Refuse(c) \/ Hand(c) \/ Write(c)
    \/ \E c \in Cmd, o \in Outcome, T \in SUBSET transit : Tell(c, o, T)
    \/ \E L \in SUBSET live, T \in SUBSET transit : GiveUp(L, T)

Spec == Init /\ [][Next]_vars
=============================================================================
