------------------------- MODULE CoreAudioChannelMap -------------------------
(***************************************************************************)
(* The channel map OpenAnalog hands to the output AudioUnit               *)
(* (audiooutputca.cpp): the device's channel layout is compared with the  *)
(* standard layout for its channel count by CreateChannelMap, which       *)
(* expands both to channel labels with ExtractChannelLabels and maps each *)
(* device channel to the first standard channel with the same label, or   *)
(* to -1 (silence).  The input is one device layout and what the system   *)
(* calls answer: which allocation fails, if one does, and what            *)
(* AudioFormatGetProperty(kAudioFormatProperty_ChannelLayoutForTag)       *)
(* answers for the zero tag that the calloc'd standard layout carries     *)
(* when the count has no standard layout.                                 *)
(*                                                                         *)
(* A label buffer is a pointer: "unset" when never assigned (the fields   *)
(* of the uninitialised ChannelLabels), "null" when malloc failed, "heap" *)
(* when allocated.                                                        *)
(***************************************************************************)
EXTENDS Integers, Sequences

CONSTANTS
    Labels,     \* channel labels a device layout may carry
    Lengths     \* numbers of channel descriptions a device layout may have

ASSUME LengthsAssumption == Lengths \subseteq Nat \ {0}

VARIABLES
    desc,   \* the labels of the device layout's channel descriptions
    fail,   \* the allocation that fails, or "none"
    tag0    \* the HAL's expansion of the zero tag: "error" or a layout

vars == <<desc, fail, tag0>>

\* The labels of OpenAnalog's switch, and the standard layouts of its
\* switch on the number of descriptions (the comments give their order).
Recognised == {"L", "R", "C", "LFE", "Ls", "Rs", "Rls", "Rrs", "Cs", "Lc", "Rc"}

\* The allocations of CreateChannelMap and ExtractChannelLabels.
Allocations == {"stdLabels", "customLabels", "expanded", "map"}

\* The standard layout OpenAnalog calloc's and tags by the device's number
\* of channel descriptions; any other count keeps the zero tag,
\* kAudioChannelLayoutTag_UseChannelDescriptions, with no descriptions.
StandardTag(n) ==
    CASE n = 1 -> "Mono"
      [] n = 2 -> "Stereo"
      [] n = 6 -> "AudioUnit_5_1"
      [] n = 8 -> "MPEG_7_1_A"
      [] OTHER -> "UseChannelDescriptions"

\* kAudioFormatProperty_ChannelLayoutForTag: the labels a tag expands to,
\* or "error".  The zero tag names no layout, and the HAL's answer for it
\* is the input tag0.
ExpandTag(tag, t0) ==
    CASE tag = "Mono"          -> <<"Mono">>   \* kAudioChannelLabel_Mono
      [] tag = "Stereo"        -> <<"L", "R">>
      [] tag = "AudioUnit_5_1" -> <<"L", "R", "C", "LFE", "Ls", "Rs">>
      [] tag = "MPEG_7_1_A"    -> <<"L", "R", "C", "LFE", "Ls", "Rs", "Lc", "Rc">>
      [] OTHER                 -> t0

\* channels_found: the descriptions whose label the switch recognises.
ChannelsFound(ds) == {i \in DOMAIN ds : ds[i] \in Recognised}

\* ExtractChannelLabels(layout, outLabels), for the buffer named who: a
\* layout with descriptions copies their labels; otherwise the tag is
\* expanded, and an expansion without descriptions leaves the labels
\* pointer unassigned (count 0).
ExtractChannelLabels(layout, who, f, t0) ==
    LET exp == ExpandTag(layout.tag, t0)
    IN
    IF Len(layout.desc) > 0 THEN
        IF f = who THEN [status |-> "MemFull", ptr |-> "null", labels |-> <<>>]
        ELSE [status |-> "noErr", ptr |-> "heap", labels |-> layout.desc]
    ELSE IF exp = "error"
        THEN [status |-> "error", ptr |-> "unset", labels |-> <<>>]
    ELSE IF f = "expanded"
        THEN [status |-> "MemFull", ptr |-> "unset", labels |-> <<>>]
    ELSE IF Len(exp) > 0 THEN
        IF f = who THEN [status |-> "MemFull", ptr |-> "null", labels |-> <<>>]
        ELSE [status |-> "noErr", ptr |-> "heap", labels |-> exp]
    ELSE [status |-> "noErr", ptr |-> "unset", labels |-> <<>>]

\* The inner loop of CreateChannelMap: the first standard index (from 0)
\* whose label equals c, the loop breaking there; -1 if there is none.
FirstMatch(c, std) ==
    LET scan[k \in 0..Len(std)] ==
            IF k = Len(std) THEN -1
            ELSE IF std[k + 1] = c THEN k ELSE scan[k + 1]
    IN scan[0]

\* A plausible fault: the map is not initialised with silence.
MapEntryUnsilenced(c, std) == IF FirstMatch(c, std) = -1 THEN 0 ELSE FirstMatch(c, std)

\* One entry of the map: initialised to -1, then set by the inner loop.
MapEntry(c, std) == FirstMatch(c, std)

\* CreateChannelMap(standard, custom, &map, &count): extract the labels of
\* both layouts (freeing the standard ones when the custom extraction
\* fails), allocate the map, fill it, free both label buffers.  freed is
\* the set of label pointers passed to free().
CreateChannelMap(standard, custom, f, t0) ==
    LET sl == ExtractChannelLabels(standard, "stdLabels", f, t0)
        cl == ExtractChannelLabels(custom, "customLabels", f, t0)
    IN
    IF sl.status # "noErr"
        THEN [status |-> sl.status, map |-> <<>>, freed |-> {}]
    ELSE IF cl.status # "noErr"
        THEN [status |-> cl.status, map |-> <<>>, freed |-> {sl.ptr}]
    ELSE IF f = "map"
        THEN [status |-> "MemFull", map |-> <<>>, freed |-> {sl.ptr, cl.ptr}]
    ELSE [status |-> "noErr",
          map |-> [i \in DOMAIN cl.labels |-> MapEntry(cl.labels[i], sl.labels)],
          freed |-> {sl.ptr, cl.ptr}]

\* The channel-map part of OpenAnalog: a layout with no recognised label
\* is left alone (the device is not configured); otherwise the standard
\* layout for its number of descriptions is built and compared with it.
OpenAnalogChannelMap(ds, f, t0) ==
    IF ChannelsFound(ds) = {} THEN [status |-> "skipped", map |-> <<>>, freed |-> {}]
    ELSE CreateChannelMap([tag |-> StandardTag(Len(ds)), desc |-> <<>>],
                          [tag |-> "UseChannelDescriptions", desc |-> ds], f, t0)

-----------------------------------------------------------------------------
Init ==
    /\ desc \in UNION {[1..n -> Labels] : n \in Lengths}
    /\ fail \in Allocations \cup {"none"}
    /\ tag0 \in {"error", <<>>}

Next == UNCHANGED vars

Spec == Init /\ [][Next]_vars

-----------------------------------------------------------------------------
(* Properties.                                                             *)

Result == OpenAnalogChannelMap(desc, fail, tag0)

\* The standard labels for the device's number of channels, when the
\* count has a standard layout.
StandardLabels ==
    LET e == ExpandTag(StandardTag(Len(desc)), tag0)
    IN IF e = "error" THEN <<>> ELSE e

\* The comment "Use first match": each device channel is fed from the first
\* standard channel with its label, and a channel whose label the standard
\* layout lacks is silent (-1), defined here without the loop.
ChannelMapIsFirstMatch ==
    Result.status = "noErr" =>
        /\ DOMAIN Result.map = DOMAIN desc
        /\ \A i \in DOMAIN desc :
              LET js == {j \in DOMAIN StandardLabels : StandardLabels[j] = desc[i]}
              IN Result.map[i] = IF js = {} THEN -1
                                 ELSE (CHOOSE j \in js : \A k \in js : j <= k) - 1

\* CreateChannelMap frees only label buffers it allocated (or null ones):
\* free() of a pointer ExtractChannelLabels never assigned is undefined.
FreesOnlyAssigned == "unset" \notin Result.freed

=============================================================================
