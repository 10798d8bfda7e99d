# Verification of the Core Audio output of MythTV

This directory holds TLA+ models of the code under `src/` in this
repository, TLC configurations that model-check them, and TLAPS proofs
about them. Almost all of the code under `src/` is
`src/mythtv/libs/libmyth/audio/audiooutputca.cpp`, the macOS Core Audio
back end of MythTV's audio output. The other two files are
`mythvdpauhelper.h` and a CMake fragment. `mythvdpauhelper.h` holds only
declarations, among them the `MythOpenGLInterop` class that `spec.md`
describes.

## 1. The system

### 1.1 Parts and how they interact

`AudioOutputCA` is the player-facing object. It owns a `CoreAudioData`
(`d`), which does all the talking to the Core Audio HAL (hardware
abstraction layer) of one output device.

| Part | Code | State it changes |
|---|---|---|
| Construction | `CoreAudioData::CoreAudioData` (490-524), `ResetAudioDevices` (1882), `ResetStream` (1926) | Sets streams left in AC-3 by a crashed run back to PCM, then picks the device. |
| Open/close | `AudioOutputCA::OpenDevice` (256), `CloseDevice` (305) | Tries the digital path and undoes it when it fails, then tries the analog path. Closes the path named by `mDigitalInUse`. |
| Digital (S/PDIF) path | `OpenSPDIF` (1665), `CloseSPDIF` (1780) | The stream's physical format, the device's hog (exclusive) mode and mixing flag, and an IOProc registered and started on the device. Members involved: `mStreamIndex`, `mStreamID`, `mFormatOrig`, `mRevertFormat`, `mIoProc`, `mStarted`, `mHog` and `mMixerRestore`. |
| Analog path | `OpenAnalog` (1207), `CloseAnalog` (1634) | An AudioUnit, created, pointed at the device, given a format and a render callback, then initialised and started. Members involved: `mOutputUnit`, `mIoProc`, `mInitialized` and `mStarted`. |
| HAL helpers | `SetHogStatus` (744), `SetMixingSupport` (798), `GetMixingSupport` (830), `AudioStreamChangeFormat` (1824) | One HAL property each. Hog mode is a toggle, and the HAL writes the new owner back into the buffer. |
| Capability queries | `RatesList` (959), `ChannelsList` (1030), `FindAC3Stream` (1848), `GetOutputSettings` (199) | No state. They turn the HAL's answers into the rates and channel counts the player is offered. |
| Render callbacks | `RenderCallbackSPDIF` (458), `RenderCallbackAnalog` (417), `RenderAudio` (349) | Run on the HAL's I/O thread. They read `mStreamIndex` and `mBytesPerPacket` and the pause flags of `AudioOutputBase`, and set `m_actuallyPaused`. |
| Channel layout | `ExtractChannelLabels` (1097), `CreateChannelMap` (1160), OpenAnalog's channel-map step (1362-1490), `ReorderSmpteToCA` (316) | Pure: label arrays allocated, compared and freed, and a map handed to the AudioUnit. |

Three actors are involved:

- the player thread, which calls OpenDevice and CloseDevice;
- the HAL's I/O thread, which calls the render callbacks while an IOProc
  or unit runs;
- other processes, which share the device's hog mode, mixing flag and
  stream formats. These settings outlive the process, which is why the
  constructor resets streams left in AC-3.

### 1.2 What makes it hard

- **Failure at any step.** Every HAL call can fail, and the code reacts
  differently to each failure. Some return early, some log and go on, and
  some have their result ignored. The cleanup (CloseSPDIF, CloseAnalog)
  must undo exactly what succeeded.
- **State outside the process.** The hog mode, the mixing flag and the
  physical format belong to the device, not to the process. They must be
  restored on every path, including after failures, or they stay wrong
  for every other application.
- **Stale members.** `mRevertFormat`, `mFormatOrig`, `mMixerRestore` and
  `mHog` are caches of device state. They survive from one open to the
  next.
- **Concurrency.** The HAL thread runs the callbacks while the player
  thread pauses or closes. Another process toggles the same device's hog
  mode between this process's calls.
- **Numeric edges.** The code uses unsigned indices (`mChannelsPerFrame - 1`)
  and stores `-1` in unsigned members.

### 1.3 The properties that make it correct

- **CloseDevice reaches the open path.** A live IOProc is flagged digital,
  and a live AudioUnit is flagged analog.
- **A closed device is released.** Once the device is closed, or an open
  has failed, nothing is left running or hogged, and the formats and
  mixing are as the process found them.
- **An open device plays.** It plays on exactly one path, and the IOProc
  writes to an AC-3 stream through a valid buffer index.
- **The recorded original is the true original.**
- **mHog tells the truth.** `mHog = getpid()` only when the device's hog
  owner is this process.
- **A pause is acknowledged.** A pause or kill requested while the device
  is open is eventually seen by `RenderAudio`.
- **The session is clean.** OpenDevice and CloseDevice implement an
  abstract open/close session (`AudioSession`). This is proved; it follows
  from the release invariant, so no run checks it separately.
- **The channel map is right.** Each channel is fed from the standard
  channel with its label, or is silent, and only allocated buffers are
  freed. No standard layout repeats a label, so the loop's "first match"
  is the only match.
- **The queries are sound and in bounds.** The rates reported are those
  the HAL's ranges contain, all of them, and ChannelsList writes only
  inside its array.

## 2. Modules

| Module | Models | Used by |
|---|---|---|
| `CoreAudioDevice` | The device life cycle: construction, OpenDevice, CloseDevice and every helper they call. | `MCCoreAudioDevice`, `CoreAudioDeviceProofs` |
| `MCCoreAudioDevice` | Constants for TLC: two streams, and which calls may fail. | the `device_*` runs |
| `CoreAudioDeviceProofs` | TLAPS proofs about `CoreAudioDevice`: type correctness. | `CoreAudioHogProofs` |
| `CoreAudioHogProofs` | TLAPS proof of `HogCacheSound`. | `CoreAudioRenderProofs`, `CoreAudioReleaseProofs` |
| `CoreAudioReleaseProofs` | TLAPS proofs of the release invariant `DInv` and of the open run's safety properties, under the hypothesis `Reliable`. | `CoreAudioSessionProofs` |
| `CoreAudioSessionProofs` | TLAPS proof that `CoreAudioDevice` implements `AudioSession`. | |
| `AudioSession` | The abstract session OpenDevice/CloseDevice implement. | `CoreAudioDevice` (INSTANCE `Session`) |
| `CoreAudioRender` | `CoreAudioDevice` composed with the HAL's I/O thread (the render callbacks, `RenderAudio`) and the player's pause and kill flags. | `MCCoreAudioRender`, `CoreAudioRenderProofs` |
| `MCCoreAudioRender` | Constants for TLC. | the `render_*` runs |
| `CoreAudioRenderProofs` | TLAPS proofs that the composition keeps `HogCacheSound`, and that no render callback runs on a closed device (`CallbackOnlyWhileOpen`). | |
| `CoreAudioChannelMap` | The channel-map step of OpenAnalog: `ExtractChannelLabels`, `CreateChannelMap`. | `MCCoreAudioChannelMap`, `CoreAudioChannelMapProofs` |
| `CoreAudioChannelMapProofs` | TLAPS proof of `ChannelMapIsFirstMatch`. | |
| `CoreAudioFormats` | `RatesList` and `IsRateCommon`. | `MCCoreAudioFormats`, `CoreAudioFormatsProofs` |
| `CoreAudioFormatsProofs` | TLAPS proof of `RatesSound`. | |
| `CoreAudioChannels` | `ChannelsList`. | `MCCoreAudioChannels`, `CoreAudioChannelsProofs` |
| `CoreAudioChannelsProofs` | TLAPS proof that `ChannelsList` writes in bounds for every nonzero channel count. | |

### 2.1 CoreAudioDevice

**State.**

- `d` is the record of the `CoreAudioData` members the life cycle reads or
  writes. `mWasDigital` and `mBytesPerPacket` are left out: nothing in the
  life cycle branches on them.
- `hal` is the device as the HAL holds it:
  - `fmt`: each stream's physical format, `"pcm"` or `"ac3"`;
  - `hog`: the pid of the hog owner, or -1;
  - `mix`: the mixing flag;
  - `proc`: the IOProc, `"none"`, `"registered"` or `"running"`;
  - `unit`: the AudioUnit, `"none"`, `"instance"`, `"initialized"` or
    `"running"`.
- `phase` is whether OpenDevice has returned true and CloseDevice has not
  yet run.
- `orig` is a history variable: the device's formats and mixing flag
  before this process touched them.

**Actions.** There are two, `OpenDevice(digital, ac3At, F)` and
`CloseDevice(F)`, one per public operation. Each contains the whole call
tree as a chain of record-valued operators:

- `OpenSPDIF`, `SetHogStatus`, `SetMixingSupport`,
  `AudioStreamChangeFormat`;
- `CloseSPDIF`;
- `OpenDeviceAnalog`, which calls `OpenAnalog`, then `AnalogUnitSetup`,
  then `CloseAnalog` once or twice, as OpenDevice does.

The inputs are chosen with `\E`:

- `digital` stands for `m_passthru || m_enc`;
- `ac3At` is the set of streams offering an AC-3 format at the current
  rate. This abstracts `StreamsList` and `FormatsList`, and OpenSPDIF takes
  its least element.
- `F` is the subset of the constant `Faults` that fails in this call.
  Every HAL call whose result the code checks is named in `HALCalls`.
  Where the code ignores the result, the model ignores it too.

**Data abstractions.**

- A format is only PCM or AC-3.
- The channel layout negotiated inside OpenAnalog (lines 1320-1560) is
  abstracted away. It changes nothing that the life cycle reads.
- `SetCurrentDevice` is only called when the device is not the default
  one. The model lets it fail either way, which over-approximates the
  behaviour.
- The hog mode is a toggle whose new owner the HAL writes back into the
  buffer passed to `AudioObjectSetPropertyData` (the comment at 753-755):
  `HogToggle(h, p)` gives a free device to `p`, frees `p`'s own hog, and
  leaves another process's hog alone. The owner after the toggle is what
  lands in `mHog` (take) or `hogPid` (release).

**Other processes.** The constant `Others` holds the pids of other
processes using the device. `OtherToggleHog(o)` is their only action: a
process takes the free hog or releases its own. `Init` lets one of them
already hold it. With `Others = {}` the model is the single-process one.

**Refinement.** `Session == INSTANCE AudioSession WITH ...` maps the
device to the abstract session. The session is read off the HAL:
- `"spdif"` when OpenDevice has reported success and only the IOProc runs;
- `"analog"` when it has reported success and only the unit runs;
- `"closed"` when it has not, and nothing runs;
- `"broken"` otherwise, which no AudioSession state allows.

The other mapped values are the settings (`hal.fmt`, `hal.mix`), the
settings found (`orig`) and `hogged` (`hal.hog = Pid`). `AudioSession`
allows an S/PDIF open to change the settings and take the hog, an analog
open to take the hog only, and requires a close to restore both. A failed
open and a step of another process map to stuttering steps.
`SessionRefined == Session!Spec` is the refinement property. It is
proved (section 5.2) rather than checked by a run: given the release
invariant before and after a step, it adds nothing TLC could catch that
the open run's invariants do not.

### 2.2 CoreAudioRender

It EXTENDS `CoreAudioDevice` and adds:
- `pauseAudio`, `killAudio` and `actuallyPaused`, for `m_pauseAudio`,
  `m_killAudio` and `m_actuallyPaused`;
- `cb`, the I/O thread's place inside `RenderAudio`.

Its actions are these:
- **Callback entry.** `RenderCallbackSPDIF` is enabled while the IOProc
  runs, and `RenderCallbackAnalog` while the unit runs. Each performs
  `RenderAudio`'s test of the flags (`RenderAudioTest`).
- **`RenderAudioReturn`.** It sets `m_actuallyPaused` if the test saw a
  pause, and otherwise renders the audio, which is abstracted away.
- **Player.** `Pause(b)` and `Kill` write the flags.
- **`DeviceStep`.** This is `CoreAudioDevice`'s `Next`. CloseDevice waits
  for an idle I/O thread, because a successful `AudioDeviceStop` or
  `AudioOutputUnitStop` returns only after a running callback has
  returned.

The test and the write are separate steps because nothing in the code
makes them atomic: the members are plain and no lock is taken.

`Pause` and `Kill` model `AudioOutputBase`, which is not in this
repository. They are an unconstrained environment, given no fairness and
no map entry. `Pause` clears `m_actuallyPaused`.

### 2.3 CoreAudioChannelMap

The input is one device layout, chosen in `Init`. It is a sequence of
labels, together with the allocation that fails (or none) and the HAL's
answer for the zero tag: an error or an empty layout.
- A label buffer is a pointer: `"unset"`, `"null"` or `"heap"`.
- `ExtractChannelLabels` and `CreateChannelMap` return records holding a
  status, the labels or the map, and the set of pointers passed to
  `free`.
- The inner loop of CreateChannelMap is a recursive function (`scan`)
  that stops at the first match, as the `break` does.

### 2.4 CoreAudioFormats and CoreAudioChannels

The input is one HAL answer, chosen in `Init` and never changed. `Next`
only stutters. The properties compare the code's result with a direct
definition of what the result should be.

- **CoreAudioFormats.** `RatesList` is the loop over ranges. `RatesLoop`
  is a recursive function whose entry `i` is the state after `i` ranges:
  `theLastIndex`, the `stop` flag for the loop's `break`, and `finalvec`.
  `RatesStep` is one iteration. `SkipBelow` is the two `while` loops that
  advance the indices: the first index from `i` where the loop condition
  `Below` fails.
  - These were RECURSIVE operators in earlier versions. They were
    rewritten as a recursive function and a first-exit `CHOOSE` so that
    the provers can reason about them (section 5.3). TLC compared both
    forms on every answer of up to three ranges and found them equal.
- **CoreAudioChannels.** `ChannelsList` is the set of indices written
  (`ChannelsWritten`).
  - The UInt32 index `mChannelsPerFrame - 1` is kept as a signed
    difference. It lies in `0..7` exactly when the wrapped unsigned value
    does, because the wrap only turns -1 into 2^32 - 1.
  - TLC cannot represent 2^32.

## 3. Runs

| Run | Cfg | Expect | Shows |
|---|---|---|---|
| `device_open` | `MCCoreAudioDevice_open.cfg` | pass (128 states) | With any open-path calls failing in any step, `TypeOK`, `CloseReachesOpenPath`, `ClosedDeviceReleased`, `OpenDevicePlaying` and `SPDIFProcWritesAC3Stream` hold. |
| `device_origformat` | `..._origformat.cfg` | violation | `FormatRestoredWhenClosed` fails when the original format cannot be read. |
| `device_revert` | `..._revert.cfg` | violation | `RecordedOriginalIsOriginal` fails after a failed revert. |
| `device_stop` | `..._stop.cfg` | violation | `SPDIFProcWritesAC3Stream` fails when stopping and destroying the IOProc both fail. |
| `rates_sound` | `MCCoreAudioFormats_sound.cfg` | pass | Every reported rate lies in a range. |
| `rates_complete` | `MCCoreAudioFormats_complete.cfg` | violation | A range's maximum is dropped and its minimum duplicated. |
| `channels_zero` | `MCCoreAudioChannels_zero.cfg` | violation | A 0-channel format writes outside `chans`. |
| `device_mixing` | `MCCoreAudioDevice_mixing.cfg` | violation | `MixingRestoredWhenClosed` fails when the mixing flag cannot be read as OpenSPDIF first changes it. |
| `device_hog` | `MCCoreAudioDevice_hog.cfg` | violation | With no call failing, another process releasing its hog makes CloseDevice take it (`ClosedDeviceReleased`). |
| `render_pause` | `MCCoreAudioRender_pause.cfg` | pass (8048 states) | Another process toggles the hog, and the hog and start calls may fail. `HogCacheSound` holds. Under weak fairness of the I/O thread, `PauseAcknowledged` holds. |
| `channelmap_first` | `MCCoreAudioChannelMap_first.cfg` | pass (164050 states) | CreateChannelMap's map sends every channel to the standard channel with its label, or to -1 (`ChannelMapIsFirstMatch`). |
| `channelmap_free` | `MCCoreAudioChannelMap_free.cfg` | violation | An uninitialised label pointer is freed (`FreesOnlyAssigned`). |

**Bounds.**

- **Two streams.** This is enough for OpenSPDIF to pick one stream while
  another exists, and for a revert to target the wrong stream.
- **Failing calls.** Each fault set holds the calls whose failure the run
  is about. The open run uses every open-path call whose failure the code
  handles by aborting. Analog calls with the same effect are represented
  by one of them. For example, `FindComponent` and `InstanceNew` both mean
  "no unit was created", so only `InstanceNew` is kept.
- **Depth.** The device graph closes at depth 3 or 4, so every
  interleaving of opens and closes is covered. The states repeat after
  one open/close cycle because the members are reset.
- **Rates.** Two ranges with endpoints chosen to hit:
  - a common rate at either end;
  - rates below, between and above the common rates;
  - overlapping ranges.
- **Channels.** Two streams of one format each, with counts 0, 2, 6, 8
  and 9. These are the boundaries of the guard.
- **Other processes.** One other pid, 502. A second one would only rename
  the owner this process fails to see.
- **Render.** The pause run uses one other process and these faults:
  - `DeviceStart` and `UnitStart`, which make an open fail (or, in a faulty
    OpenDevice, succeed with nothing running);
  - the hog faults `SetAutoHog`, `SetHog`, `ReleaseHog` and
    `ChangeFormat`.
- **Channel map.** Device layouts of 1, 2, 3, 4 and 6 channels over the
  labels L, R, C, LFE and one unrecognised label. This covers:
  - counts with and without a standard layout;
  - device layouts that repeat a label (no standard layout does, so the
    loop's first match is its only match);
  - layouts with no recognised label.

Each passing property has a mutant (`PROJECT.json`, "mutants"): a
plausible bug in the code that TLC catches with the run's own cfg.

**Fairness.** Only `render_pause` assumes fairness: `RFairness`, weak
fairness of `RenderCallbackSPDIF`, `RenderCallbackAnalog` and
`RenderAudioReturn`. The HAL calls a running IOProc or AudioUnit once per
buffer for as long as it runs, and a callback that has started returns,
since RenderAudio never blocks (its comment at 358-362). The player, the
device steps and other processes get no fairness: nothing in this file
obliges the player to pause, unpause or close. The other runs check only
safety properties and refinement.

## 4. Findings

Each finding is a violation run with a trace. Line numbers refer to
`audiooutputca.cpp`.

1. **Format left in AC-3** (1724-1750). If the stream's original format
   cannot be read, OpenSPDIF still switches the stream to AC-3, and
   CloseSPDIF never reverts it.
2. **AC-3 recorded as the original** (1810-1811). A failed revert still
   clears `mRevertFormat`, so the next open records AC-3 as the original.
3. **IOProc left running** (1791-1820). If stop and destroy both fail, the
   IOProc keeps running after CloseSPDIF, which sets `mStreamIndex = -1`
   and reverts the stream to PCM. The callback then indexes `mBuffers[-1]`.
4. **RatesList misreports ranges** (1021-1024). It pushes the minimum
   twice and never pushes the maximum.
5. **Channel index out of bounds** (1056, 1082). A format with 0 channels
   per frame writes `chans[UINT32_MAX]`.
6. **Hog kept after close** (765-792). No call fails in this trace:
   1. Another process holds the hog when this process opens the device.
      The take fails, but `mHog` keeps the other pid.
   2. The other process releases the hog.
   3. CloseSPDIF's release sees `mHog > -1` and toggles, which takes the
      free device.
   4. The HAL writes back `getpid()`, so the release reports failure.

   The process now holds the device after close, and every later open
   skips the take because `mHog != -1`.
7. **Mixing left off** (803-804, 830-846, 1815-1816). If GetMixingSupport
   cannot read the property when OpenSPDIF first disables mixing, it
   returns false, so `mMixerRestore = 0` is recorded although mixing was
   on. CloseSPDIF then restores "off", contrary to the comment "Store the
   original setting for restore".
8. **Free of an uninitialised pointer** (1150, 1201). For a channel count
   with no standard layout (3, 4, 5, 7, more than 8), the calloc'd standard
   layout keeps tag 0 with no descriptions. If the HAL expands the tag to
   an empty layout, ExtractChannelLabels returns `noErr` with `labels`
   unassigned. CreateChannelMap frees it, at 1201 or at 1180.

One further defect is visible in the models but has no run of its own:
- **A pause acknowledged after an unpause.** RenderAudio's test of the
  flags and its write of `m_actuallyPaused` (352-354) are not atomic, and
  in `CoreAudioRender` an unpause can fall between them. This leaves
  `m_actuallyPaused` set while playing. It is also a data race on plain
  members. What this costs depends on `AudioOutputBase`, which is not in
  this repository.

## 5. Proofs

`CoreAudioDeviceProofs` proves, with TLAPS and for every value of the
constants, **THEOREM TypeCorrect: `Spec => []TypeOK`**. The proof rests on
the assumptions in `CoreAudioDevice`:

- `Streams` is a non-empty set of naturals;
- `Faults` is a subset of `HALCalls`;
- `Pid` is a positive natural.

`TypeOK` is not inductive as it stands. CloseSPDIF writes `mFormatOrig`
back to stream `mStreamID`. If `mStreamID` could be -1, or `mFormatOrig`
could be the unset value, the new format map would not be typed. The
inductive invariant `IInv` therefore adds
`mRevertFormat => mFormatOrig \in Fmts /\ mStreamID \in Streams`. It
states the record types field by field (`DataOK`, `HALOK`) so that the SMT
solver need not unfold the record sets.

The proof is laid out in these steps:

1. **The minimum exists.** `FirstStreamIsLeast` shows that the least
   element of a non-empty set of naturals exists, from
   `WellFoundedInduction!WFMin` and `NatLessThanWellFounded`. OpenSPDIF's
   stream choice depends on it.
2. **One lemma per helper.** Each lemma shows that the helper keeps
   `DataOK` and `HALOK`. The helpers are `SetHogStatus`,
   `SetMixingSupport`, `AudioStreamChangeFormat`, `OpenSPDIF`,
   `CloseSPDIF`, `AnalogUnitSetup`, `CloseAnalog` and `OpenDeviceAnalog`.
3. **The invariant.** `InitIInv` and `NextIInv` prove it, with one case per
   action. The theorem follows by PTL.

`CoreAudioHogProofs` proves **THEOREM HogCacheCorrect:
`Spec => []HogCacheSound`**, for every set of other processes. It also
uses the assumption that `Others` is a set of positive naturals without
`Pid`. `HogCacheSound` alone is not inductive, because the proof must know
the record types. The invariant is `HInv == IInv /\ HogCacheSound`, and
there is one lemma per helper:
- **`SetHogStatusHog`.** After the toggle, `mHog = Pid` only where the
  written-back owner is `Pid`.
- **`OpenSPDIFHog`, `CloseSPDIFHog`, `OpenDeviceAnalogHog`.** These carry
  the invariant through each branch.
- **`OtherToggleHog`.** It cannot make the owner `Pid`, and `mHog = Pid`
  already implied the owner was `Pid`, so another process could not toggle.

`CoreAudioRenderProofs` proves **THEOREM RenderTypeCorrect:
`RSpec => []RTypeOK`** and **THEOREM RenderHogCacheCorrect:
`RSpec => []HogCacheSound`**. The argument rests on two facts:
- every render and flag step leaves the device's variables unchanged
  (`RenderStepsKeepDevice`);
- every device step of the composition is a `Next` step
  (`DeviceStepNext`).

Hence `HInv` with the flags' types is inductive for the composition.
`RTypeOK` is `TypeOK` with the flags' types, so no run checks it.

**THEOREM CallbackOnlyWhileOpenCorrect: `ASSUME StopWorks PROVE
RSpec => []CallbackOnlyWhileOpen`**. It says that no render callback runs
on a closed device, for every set of failing calls that leaves at least one
of `AudioDeviceStop` and `AudioDeviceDestroyIOProcID` working. No run
checks it: `CloseDevice` waits for an idle I/O thread, so the property
comes down to "nothing runs once closed", a part of `ClosedDeviceReleased`
that `device_open` checks with every close call working. The theorem
extends that part to other processes and to any failing calls but the
pair.

The hypothesis is needed. When both fail, `CloseSPDIF` clears the flags
while the IOProc still runs. The `device_stop` run shows that case, and TLC
finds `CallbackOnlyWhileOpen` violated with both in `Faults`.

The property alone is not inductive: a callback starts whenever the IOProc
or the unit runs. The inductive invariant is
`CInv == RInv /\ PathsOK(d, hal, phase) /\ CallbackOnlyWhileOpen`, and
`PathsOK` says:
- a running IOProc means the device is open, with `mDigitalInUse`,
  `mStarted` and `mIoProc` set;
- a running unit means the device is open, with `mDigitalInUse` clear and
  `mOutputUnit` set.

So `CloseDevice` takes the branch of the running path, and that path's
stop ends it. `NextPathsOK` carries `PathsOK` through every device step,
with one lemma per helper of the device model:
- `SetHogStatusPaths`, `SetMixingSupportPaths` and `CloseAnalogPaths`;
- `CloseSPDIFPaths` and `OpenSPDIFPaths`;
- `AnalogUnitSetupPaths` and `OpenDeviceAnalogPaths`.

Each lemma states what the helper leaves unchanged and, for the IOProc, how
it ends or starts. The render and flag steps keep the device. `CloseDevice`
is taken only when the I/O thread is idle, and `OpenDevice` only from a
closed device with no callback.

### 5.1 The release invariant and the open run's properties

`CoreAudioReleaseProofs` proves the open run's safety properties. They
hold only when the calls that record or undo the original state work, and
no other process uses the device. The hypothesis is

    ReliableCalls == {"GetOrigFormat", "GetMixing", "DestroyIOProc",
                      "RevertFormat", "ReleaseHog", "RestoreMixing"}
    Reliable      == Faults \cap ReliableCalls = {} /\ Others = {}

Every theorem is stated as `ASSUME Reliable PROVE Spec => ...`, not as a
module `ASSUME`, so the violation runs with other fault sets still use the
same modules. Each part of the hypothesis is needed, and a violation run
shows why:
- `device_origformat`: `GetOrigFormat` fails;
- `device_revert`: `RevertFormat` fails;
- `device_stop`: the IOProc cannot be stopped or destroyed;
- `device_hog`: another process is present.

The open run satisfies `Reliable`, so the hypothesis is not vacuous. Any
other call may fail in any step, and `Streams` and `Pid` are arbitrary.

`ClosedDeviceReleased` is not inductive. A failed OpenSPDIF hands
CloseSPDIF a half-open session, and the proof must know what CloseSPDIF
can undo. The inductive invariant `DInv` is `IInv` together with one
predicate per phase:
- **`Released`** (closed). Nothing is held, formats and mixing are as
  found, `mHog = -1` and nothing is recorded for a revert.
- **`SpdifOpen`** (open, digital). The session is `Undoable`: only
  `mStreamID` differs from the original format, `mFormatOrig` records that
  format, `mMixerRestore` records the original mixing, and the hog is
  `mHog`. The IOProc runs on that stream in AC-3.
- **`AnalogOpen`** (open, analog). The state is `Untouched` apart from the
  running AudioUnit.

TLC checked `DInv` first, as an invariant of a run with every call
outside `ReliableCalls` failing (128 states). The lemmas follow the code:
- `SetHogStatusTakeUndoable`, `SetMixingOffUndoable` and
  `OpenSPDIFUndoable`: each open step leaves a state CloseSPDIF can undo.
- `CloseSPDIFReleases` and `CloseAnalogReleases`: the closes release it.
- `OpenDeviceDInv` and `CloseDeviceDInv`: the two actions keep `DInv`.
- `NextDInv`: `DInv` is inductive.

From `ReleaseInvariant` (`Spec => []DInv`) the theorems follow:
- `DeviceReleasedCorrect`, `OpenPathCorrect`, `OpenDevicePlayingCorrect`
  and `SPDIFStreamCorrect`: the open run's invariants;
- `RecordedOriginalCorrect`: the property the `device_revert` run breaks
  without the hypothesis;
- `FailedOpenRollsBackCorrect`: the action property `FailedOpenRollsBack`,
  that a step from closed to closed leaves the HAL unchanged. `DInv`
  before and after such a step makes both HAL states `Released` with the
  same `orig`, so they are equal. That is why no run checks it: it
  follows from `ClosedDeviceReleased` holding on both sides.

### 5.2 The refinement

`CoreAudioSessionProofs` proves **THEOREM SessionRefinedCorrect:
`ASSUME Reliable PROVE Spec => SessionRefined`**. The refinement mapping
is the one `CoreAudioDevice` gives `Session`. The proof has three parts:
- **Initial states.** `Init` maps to `Session!Init`, because the device
  starts released.
- **Steps (`SessionStep`).** Under `DInv` and `DInv'`, every `Next` step
  maps to a `Session!Next` step or a stutter. It splits on the phase
  before and after the step:
  - closed to closed is an abstract stutter (`ClosedSession`);
  - closed to open is `OpenSPDIF` or `OpenAnalog` (`OpenSessionNext`);
  - open to closed is `Close`.
- **Conclusion.** The temporal step combines these with
  `ReleaseInvariant` by PTL.

### 5.3 The pure algorithms

`CoreAudioChannelsProofs` proves **THEOREM ChannelsInBoundsCorrect:
`ASSUME ChannelCounts \subseteq Nat \ {0} PROVE
Spec => []ChannelsWritesInBounds`**, for every bound on streams and
formats. The lemma `WrittenInBounds` shows that the guard
`<= CHANNELS_MAX` bounds the index from above and a count of at least 1
bounds it from below. The AC-3 write is the constant `6 - 1`. The
`channels_zero` run shows the count 0 breaking the property, so 0 is the
only count that does.

`CoreAudioChannelMapProofs` proves **THEOREM ChannelMapFirstMatchCorrect:
`Spec => []ChannelMapIsFirstMatch`** for every set of labels and layout
lengths. `FirstMatch` is a recursive function, `scan`, and the provers
cannot instantiate an induction rule. The proof therefore works as
follows:
- It gives `scan`'s closed form, `FirstIndex`: the least matching index.
- It proves that `FirstIndex` solves `scan`'s equation
  (`FirstIndexSolves`).
- It proves that any solution agrees with `FirstIndex` on one more index
  from the end (`AgreeStep`).
- It chains this step over the at most 8 channels of a standard layout
  (`FirstMatchIsFirstIndex`). The bound comes from the code's four
  standard tags, not from the model.
- `ResultIsMapOfStandard` then unfolds OpenAnalog's channel-map step down
  to `FirstMatch` on the standard labels.

`CoreAudioFormatsProofs` proves **THEOREM RatesSoundCorrect:
`Spec => []RatesSound`**. It holds for every set of natural endpoints and
every bound `MaxRanges`. Unlike `FirstMatch`, the loop over ranges is not
bounded by a constant of the code, so the proof is a true induction:
- **Loop state.** `Sound(v, rs)` says that `theLastIndex` is in `0..15`
  and that `finalvec` holds only common rates inside some range.
- **The loop's equation.** `RatesLoopEq` comes from
  `NaturalsInduction!FiniteNatInductiveDef`. That theorem's operator
  parameter can be instantiated here, because the step is a named binary
  operator, `RangeStep`. The induction rules with a predicate parameter
  cannot be.
- **One iteration.** `RatesStepSound` shows one iteration keeps `Sound`.
  It uses three facts:
  - `SkipBelowSpec`: the index loops stop at the first index that is not
    below the bound;
  - the table of common rates is ascending (`CommonTable`);
  - `CommonSliceSound` and `RangeEndRateSound`: what the inner loop and
    the end-rate push append.
- **Induction.** `RatesLoopSound` takes the least unsound index from
  `WellFoundedInduction!WFMin`. Index 0 is sound (`RatesInitSound`), and
  a later one is one step from a sound state, so no unsound index exists.
- **Conclusion.** `AnswerInvariant` shows that the answer stays a
  sequence of ranges of naturals. `RatesSound` is then `Sound` of the
  last loop state.

### 5.4 A modelling fix made for the proofs

Three `CASE` expressions had overlapping guards:
- the IOProc state in `OpenSPDIF` and `CloseSPDIF`;
- the unit state in `AnalogUnitSetup`.

In TLA+, such a CASE picks an arm nondeterministically. TLC takes the
first arm that is true, so its runs matched the code, but the provers
could not derive the code's result. They are now `IF`/`ELSE IF` chains in
the code's order, as are `ExtractChannelLabels` and `CreateChannelMap`.
The runs are unchanged.

**Out of the prover's reach, and left to TLC:**

- **Liveness** (`PauseAcknowledged`). It needs ENABLED and fairness.
- **Behaviour outside `Reliable`.** The violation runs cover it.
- **`RatesComplete`.** The code violates it (finding in section 4), so
  there is nothing to prove.

## 6. Not modelled

- **The destructor.** `~AudioOutputCA` calls
  `AudioOutputBase::KillAudio`, which is not in this repository, before
  `delete d`. Its order relative to a callback that is still registered
  cannot be modelled from this file. `device_stop` shows such a callback
  can exist.
- **The audio data path.** `GetAudioData`, the silence fill,
  `ReorderSmpteToCA` (a fixed permutation of samples), `m_bufferedBytes`
  and the `mBytesPerPacket` clamp are left out. No property tells byte
  values apart.
- **Queries that change no state.** `GetOutputSettings`, device
  enumeration, names, volume and audiotime are left out.
- **Interop and VDPAU.** `spec.md` describes the interop, but only
  declarations of it and of the VDPAU helper are under `src/`.
- **The CMake fragment.** It has no behaviour.
- **`SetAutoHogMode(false)`** (1739) changes a system-wide HAL property
  that nothing restores. The model takes it as a call that may fail and
  tracks no state for it.
- **The HAL refusing a hog request** while another process holds the hog
  mode. The model's toggle always goes through and writes the new owner
  back. The `device_hog` trace relies on the HAL accepting the toggle.

## 7. Plan

Next steps, in order:

1. **Model the `ReorderSmpteToCA` permutation.** Check it against the
   SMPTE and Core Audio channel orders.
2. **Model the interop from `spec.md`.** The code is not under `src/`.
3. **Prove the rest of `DInv` for the render composition.** This would
   carry the release invariant into `CoreAudioRender` under `Reliable`, as
   `PathsOK` already does for the running paths.
