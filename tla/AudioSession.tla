----------------------------- MODULE AudioSession -----------------------------
(***************************************************************************)
(* What an audio output device session promises the player, abstractly:   *)
(* the device is opened onto one output path (the S/PDIF IOProc or the    *)
(* analog AudioUnit) and closed again.  An S/PDIF session may change the   *)
(* device's shared settings (stream formats, mixing) and take its hog     *)
(* mode; an analog one changes no setting.  A closed session holds no hog *)
(* and has put the settings back to what the process found.  A failed    *)
(* open is a step that changes nothing.                                   *)
(***************************************************************************)
CONSTANT Settings   \* the values of the device's shared settings

VARIABLES
    session,   \* "closed", "spdif" or "analog"
    settings,  \* the device's shared settings now
    found,     \* the settings the process found
    hogged     \* whether the process holds the device's hog mode

vars == <<session, settings, found, hogged>>

Init ==
    /\ session = "closed"
    /\ found \in Settings
    /\ settings = found
    /\ hogged = FALSE

OpenSPDIF ==
    /\ session = "closed"
    /\ session' = "spdif"
    /\ settings' \in Settings
    /\ hogged' \in BOOLEAN
    /\ UNCHANGED found

OpenAnalog ==
    /\ session = "closed"
    /\ session' = "analog"
    /\ hogged' \in BOOLEAN
    /\ UNCHANGED <<settings, found>>

Close ==
    /\ session \in {"spdif", "analog"}
    /\ session' = "closed"
    /\ settings' = found
    /\ hogged' = FALSE
    /\ UNCHANGED found

Next == OpenSPDIF \/ OpenAnalog \/ Close

Spec == Init /\ [][Next]_vars

=============================================================================
