----------------------- MODULE CoreAudioSessionProofs -----------------------
(***************************************************************************)
(* Proof that the device life cycle of CoreAudioDevice implements the      *)
(* abstract AudioSession under the refinement mapping Session, when none  *)
(* of ReliableCalls fails and no other process uses the device: every     *)
(* OpenDevice that succeeds opens one session, every failed one is a      *)
(* stutter, and every CloseDevice closes the session with the settings    *)
(* back to what the process found and no hog held.                         *)
(***************************************************************************)
EXTENDS CoreAudioReleaseProofs

\* The settings of the device as AudioSession sees them.
SettingsOf == [fmt |-> hal.fmt, mix |-> hal.mix]

-----------------------------------------------------------------------------
(* The session read off a state of the inductive invariant.               *)

\* A closed device is a closed session holding no hog, with the settings
\* as found.
LEMMA ClosedSession ==
    ASSUME DInv, phase = "closed"
    PROVE  /\ SessionOf = "closed"
           /\ SettingsOf = orig
           /\ hal.hog # Pid
<1>1. Pid # -1
    BY PidAssumption
<1>2. Released(d, hal, orig) /\ orig \in [fmt: [Streams -> Fmts], mix: BOOLEAN]
    BY DEF DInv, IInv
<1>. QED BY <1>1, <1>2 DEF SessionOf, SettingsOf, Released, Untouched

\* An open device is an S/PDIF session, or an analog one that has left the
\* settings as found.
LEMMA OpenSession ==
    ASSUME DInv, phase = "open"
    PROVE  \/ SessionOf = "spdif"
           \/ SessionOf = "analog" /\ SettingsOf = orig
<1>1. orig \in [fmt: [Streams -> Fmts], mix: BOOLEAN]
    BY DEF DInv, IInv
<1>2. CASE d.digitalInUse
    BY <1>2 DEF DInv, SpdifOpen, Undoable, SessionOf
<1>3. CASE ~d.digitalInUse
    BY <1>1, <1>3 DEF DInv, AnalogOpen, Untouched, SessionOf, SettingsOf
<1>. QED BY <1>2, <1>3, DataTypeFields DEF DInv, IInv, DataOK, DataFieldsTyped

\* Both lemmas hold of the next state as well.
LEMMA ClosedSessionNext ==
    ASSUME DInv', phase' = "closed"
    PROVE  /\ SessionOf' = "closed"
           /\ SettingsOf' = orig'
           /\ hal'.hog # Pid
<1>1. Pid # -1
    BY PidAssumption
<1>2. Released(d, hal, orig)' /\ orig' \in [fmt: [Streams -> Fmts], mix: BOOLEAN]
    BY DEF DInv, IInv
<1>. QED BY <1>1, <1>2 DEF SessionOf, SettingsOf, Released, Untouched

LEMMA OpenSessionNext ==
    ASSUME DInv', phase' = "open"
    PROVE  \/ SessionOf' = "spdif"
           \/ SessionOf' = "analog" /\ SettingsOf' = orig'
<1>1. orig' \in [fmt: [Streams -> Fmts], mix: BOOLEAN]
    BY DEF DInv, IInv
<1>2. CASE d'.digitalInUse
    BY <1>2 DEF DInv, SpdifOpen, Undoable, SessionOf
<1>3. CASE ~d'.digitalInUse
    BY <1>1, <1>3 DEF DInv, AnalogOpen, Untouched, SessionOf, SettingsOf
<1>. QED BY <1>2, <1>3 DEF DInv, IInv, DataOK, DataFieldsTyped

-----------------------------------------------------------------------------
(* The refinement.                                                         *)

\* Every step of the device is a step of the session or leaves it alone:
\* OpenDevice takes a closed device to an open session or, failing, back
\* to a closed one; CloseDevice takes an open session to a closed one.
LEMMA SessionStep ==
    ASSUME Reliable, DInv, DInv', [Next]_vars
    PROVE  [Session!Next]_Session!vars
<1>1. CASE UNCHANGED vars
    BY <1>1 DEF vars, Session!vars, SessionOf
<1>2. CASE Next
    <2>1. orig' = orig /\ ~(phase = "open" /\ phase' = "open")
        <3>1. CASE \E F \in SUBSET Faults, digital \in BOOLEAN,
                      ac3At \in SUBSET Streams : OpenDevice(digital, ac3At, F)
            BY <3>1 DEF OpenDevice
        <3>2. CASE \E F \in SUBSET Faults : CloseDevice(F)
            BY <3>2 DEF CloseDevice
        <3>3. CASE \E o \in Others : OtherToggleHog(o)
            BY <3>3 DEF Reliable
        <3>. QED BY <1>2, <3>1, <3>2, <3>3 DEF Next
    <2>2. phase \in {"open", "closed"} /\ phase' \in {"open", "closed"}
        BY DEF DInv, IInv
    <2>3. CASE phase = "closed" /\ phase' = "closed"
        <3>1. /\ SessionOf = "closed" /\ SettingsOf = orig /\ hal.hog # Pid
              /\ SessionOf' = "closed" /\ SettingsOf' = orig' /\ hal'.hog # Pid
            BY <2>3, ClosedSession, ClosedSessionNext
        <3>. QED BY <2>1, <3>1 DEF Session!vars, SettingsOf
    <2>4. CASE phase = "closed" /\ phase' = "open"
        <3>1. /\ SessionOf = "closed" /\ SettingsOf = orig
              /\ \/ SessionOf' = "spdif"
                 \/ SessionOf' = "analog" /\ SettingsOf' = orig'
            BY <2>4, ClosedSession, OpenSessionNext
        <3>2. SettingsOf' \in [fmt: [Streams -> Fmts], mix: BOOLEAN]
            BY DEF DInv, IInv, HALOK, HALFieldsTyped, SettingsOf
        <3>. QED BY <2>1, <3>1, <3>2
                 DEF Session!Next, Session!OpenSPDIF, Session!OpenAnalog,
                     SettingsOf
    <2>5. CASE phase = "open" /\ phase' = "closed"
        <3>1. /\ SessionOf \in {"spdif", "analog"}
              /\ SessionOf' = "closed" /\ SettingsOf' = orig' /\ hal'.hog # Pid
            BY <2>5, OpenSession, ClosedSessionNext
        <3>. QED BY <2>1, <3>1 DEF Session!Next, Session!Close, SettingsOf
    <2>. QED BY <2>1, <2>2, <2>3, <2>4, <2>5
<1>. QED BY <1>1, <1>2

\* Under the conditions of Reliable, OpenDevice, CloseDevice and the
\* failures of every other HAL call implement an AudioSession, for every
\* instance: each step maps to an AudioSession step or a stutter, given the
\* release invariant before and after it.
THEOREM SessionRefinedCorrect ==
    ASSUME Reliable
    PROVE  Spec => SessionRefined
<1>1. Init => Session!Init
    <2>. SUFFICES ASSUME Init PROVE Session!Init
        OBVIOUS
    <2>1. DInv /\ phase = "closed"
        BY InitDInv DEF Init
    <2>2. /\ SessionOf = "closed" /\ SettingsOf = orig /\ hal.hog # Pid
          /\ orig \in [fmt: [Streams -> Fmts], mix: BOOLEAN]
        BY <2>1, ClosedSession DEF DInv, IInv
    <2>. QED BY <2>2 DEF Session!Init, SettingsOf
<1>2. DInv /\ DInv' /\ [Next]_vars => [Session!Next]_Session!vars
    BY SessionStep
<1>. QED BY <1>1, <1>2, ReleaseInvariant, PTL
         DEF Spec, SessionRefined, Session!Spec

=============================================================================
