---------------------------- MODULE MCSrvManager ----------------------------
(* Instances of SrvManager for TLC.                                        *)
EXTENDS SrvManager

\* Model values: the main thread and two threads of applications; services.
CONSTANTS main, app, app2, bt, media, ui

\* main starts bt (btif_start) and ui (system_init), any of the threads that
\* play something the media service.
MCStarters == [s \in Services |-> IF s = media THEN {app, app2} ELSE {main}]

\* main stops bt (btif_stop); the media service is never stopped.
MCExiters == [s \in Services |-> IF s = bt THEN {main} ELSE {}]
=============================================================================
