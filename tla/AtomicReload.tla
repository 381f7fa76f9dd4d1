---------------------------- MODULE AtomicReload ----------------------------
(***************************************************************************)
(* What the reloader promises its clients: reloads happen one at a time,   *)
(* each reads the configuration file after it was asked for, and what it   *)
(* read takes effect, configuration, gauges and answer together, in a      *)
(* single step before it is answered.                                      *)
(***************************************************************************)
EXTENDS Integers

CONSTANT Clients    \* those who ask for reloads

NoConfig == -1
Nothing  == [version |-> NoConfig, valid |-> FALSE]

VARIABLES
    file,           \* the configuration file
    reading,        \* the file as the reload under way has read it
    live,           \* version of the configuration in use
    successful,     \* whether the most recent load succeeded
    timestamp,      \* version that was loaded by the most recent successful one
    answer          \* of each client's request

vars == <<file, reading, live, successful, timestamp, answer>>

Init ==
    /\ file \in [version : {0}, valid : BOOLEAN]
    /\ reading = Nothing
    /\ live = NoConfig
    /\ successful = 0
    /\ timestamp = NoConfig
    /\ answer = [c \in Clients |-> "none"]

Edit ==
    /\ \E valid \in BOOLEAN : file' = [version |-> file.version + 1, valid |-> valid]
    /\ UNCHANGED <<reading, live, successful, timestamp, answer>>

Ask(c) ==
    /\ answer[c] = "none"
    /\ answer' = [answer EXCEPT ![c] = "waiting"]
    /\ UNCHANGED <<file, reading, live, successful, timestamp>>

Read(c) ==
    /\ answer[c] = "waiting"
    /\ reading = Nothing
    /\ reading' = file
    /\ answer' = [answer EXCEPT ![c] = "reading"]
    /\ UNCHANGED <<file, live, successful, timestamp>>

\* What was read takes effect, if it is valid and nothing else that it needs is missing;
\* otherwise the previous configuration stays in use.
Reload(c, ok) ==
    /\ answer[c] = "reading"
    /\ ok => reading.valid
    /\ reading' = Nothing
    /\ successful' = IF ok THEN 1 ELSE 0
    /\ live' = IF ok THEN reading.version ELSE live
    /\ timestamp' = IF ok THEN reading.version ELSE timestamp
    /\ answer' = [answer EXCEPT ![c] = IF ok THEN "ok" ELSE "failed"]
    /\ UNCHANGED file

\* The client has its answer and may ask again.
Return(c) ==
    /\ answer[c] \in {"ok", "failed"}
    /\ answer' = [answer EXCEPT ![c] = "none"]
    /\ UNCHANGED <<file, reading, live, successful, timestamp>>

Next ==
    \/ Edit
    \/ \E c \in Clients : Ask(c) \/ Read(c) \/ Return(c) \/ \E ok \in BOOLEAN : Reload(c, ok)

Spec == Init /\ [][Next]_vars
=============================================================================
