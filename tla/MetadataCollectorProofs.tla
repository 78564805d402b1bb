----------------------- MODULE MetadataCollectorProofs -----------------------
(***************************************************************************)
(* Proofs about the sentinel's metadata collector, for any keys and        *)
(* values.                                                                 *)
(***************************************************************************)
EXTENDS MetadataCollector, TLAPS

(* What a read that has come to key i would hold of a file that does not   *)
(* change meanwhile.                                                       *)
Before(c) == {key \in DOMAIN c \ missed : \E n \in 1..(i - 1) : ConfigKeys[n] = key}
ReadSoFar(c) == [k \in Before(c) |-> Sprintf(c[k])]

(* Nothing has been written since the collector last looked.               *)
Quiet == watched /\ ~event

(* The filter has what the last unforced collection could read.            *)
Known == ~(DOMAIN file \subseteq gaps) => hash = RenderedWithout(file, gaps)

(* Between the watch's events the file does not change, so a read is not   *)
(* torn and ends in the filter, at the latest when the payload is sent,    *)
(* with the keys it missed; a forced read, which ends nowhere, starts      *)
(* after the filter has the file, or with an event waiting that only a     *)
(* later select takes.                                                     *)
FilterInv ==
  /\ i \in Nat \ {0}
  /\ file \in Configurations
  /\ watched \in BOOLEAN /\ event \in BOOLEAN /\ force \in BOOLEAN
  /\ watched => mode = "file"
  /\ \A key \in missed : \E n \in 1..(i - 1) : n \in DOMAIN ConfigKeys /\ ConfigKeys[n] = key
  /\ pc = "read" /\ Quiet => values = ReadSoFar(file)
  /\ pc = "read" /\ Quiet /\ force => Known
  /\ pc \in {"select", "send"} /\ Quiet => Known
  /\ pc = "start" => ~watched /\ ~event

LEMMA KeyFacts ==
  /\ Len(ConfigKeys) \in Nat /\ DOMAIN ConfigKeys = 1..Len(ConfigKeys)
  /\ \A m, n \in DOMAIN ConfigKeys : ConfigKeys[m] = ConfigKeys[n] => m = n
BY MetadataAssumption

(* A read that has passed the last key has all of the file that it did not *)
(* fail to read.                                                           *)
LEMMA WholeFile ==
  ASSUME FilterInv, i > Len(ConfigKeys)
  PROVE  ReadSoFar(file) = RenderedWithout(file, missed)
<1>1. DOMAIN file \subseteq Keys
  BY MetadataAssumption DEF FilterInv
<1>2. ASSUME NEW key \in DOMAIN file PROVE \E n \in 1..(i - 1) : ConfigKeys[n] = key
  <2>1. PICK n \in 1..Len(ConfigKeys) : ConfigKeys[n] = key
    BY <1>1, KeyFacts DEF Keys
  <2>2. n \in 1..(i - 1)
    BY KeyFacts DEF FilterInv
  <2> QED  BY <2>1, <2>2
<1>3. Before(file) = DOMAIN file \ missed
  BY <1>2 DEF Before
<1> QED  BY <1>3 DEF ReadSoFar, RenderedWithout

(* One more key, read.                                                     *)
LEMMA OneMoreKey ==
  ASSUME FilterInv, i \in DOMAIN ConfigKeys, values = ReadSoFar(file), KeyRead,
         i' = i + 1, file' = file, missed' = missed
  PROVE  values' = ReadSoFar(file)'
<1> DEFINE had == Before(file)
           has == Before(file)'
<1>1. values = [k \in had |-> Sprintf(file[k])]
  BY DEF ReadSoFar
<1>2. ReadSoFar(file)' = [k \in has |-> Sprintf(file[k])]
  BY DEF ReadSoFar
<1>3. \A n : n \in 1..(i' - 1) <=> n \in 1..(i - 1) \/ n = i
  BY DEF FilterInv
<1>4. CASE ConfigKeys[i] \in DOMAIN file
  <2>1. ConfigKeys[i] \notin missed
    <3> SUFFICES ASSUME NEW n \in 1..(i - 1), n \in DOMAIN ConfigKeys, ConfigKeys[n] = ConfigKeys[i]
                 PROVE  FALSE
      BY DEF FilterInv
    <3>1. n = i
      BY KeyFacts
    <3> QED  BY <3>1 DEF FilterInv
  <2>2. has = had \cup {ConfigKeys[i]}
    BY <1>3, <1>4, <2>1 DEF Before
  <2>3. values' = [k \in DOMAIN values \cup {ConfigKeys[i]} |->
                     IF k = ConfigKeys[i] THEN Sprintf(file[ConfigKeys[i]]) ELSE values[k]]
    BY <1>4 DEF KeyRead
  <2> HIDE DEF had, has
  <2>4. DOMAIN values = had /\ \A k \in had : values[k] = Sprintf(file[k])
    BY <1>1
  <2>5. \A k \in has : values'[k] = Sprintf(file[k])
    BY <2>2, <2>3, <2>4
  <2>6. values' = [k \in has |-> Sprintf(file[k])]
    BY <2>2, <2>3, <2>4, <2>5
  <2> QED  BY <1>2, <2>6
<1>5. CASE ConfigKeys[i] \notin DOMAIN file
  <2>1. has = had
    BY <1>3, <1>5 DEF Before
  <2>2. values' = values
    BY <1>5 DEF KeyRead
  <2> QED  BY <1>1, <1>2, <2>1, <2>2
<1> QED  BY <1>4, <1>5

(* One more key, missed.                                                   *)
LEMMA OneKeyMissed ==
  ASSUME FilterInv, i \in DOMAIN ConfigKeys, values = ReadSoFar(file), values' = values,
         i' = i + 1, file' = file, missed' = missed \cup {ConfigKeys[i]}
  PROVE  values' = ReadSoFar(file)'
<1>1. \A n : n \in 1..(i' - 1) <=> n \in 1..(i - 1) \/ n = i
  BY DEF FilterInv
<1>2. ASSUME NEW n \in 1..(i - 1) PROVE ConfigKeys[n] # ConfigKeys[i]
  <2>1. n \in DOMAIN ConfigKeys /\ n # i
    BY KeyFacts DEF FilterInv
  <2> QED  BY <2>1, KeyFacts
<1>3. Before(file)' = Before(file)
  BY <1>1, <1>2 DEF Before
<1> QED  BY <1>3 DEF ReadSoFar

LEMMA MissedKeys ==
  ASSUME FilterInv, i \in DOMAIN ConfigKeys, i' = i + 1, missed' \subseteq missed \cup {ConfigKeys[i]}
  PROVE  \A key \in missed' : \E n \in 1..(i' - 1) : n \in DOMAIN ConfigKeys /\ ConfigKeys[n] = key
<1>1. i \in 1..(i' - 1) /\ 1..(i - 1) \subseteq 1..(i' - 1)
  BY DEF FilterInv
<1> QED  BY <1>1 DEF FilterInv

(* A collection begins, with nothing read.                                 *)
LEMMA CollectStarts ==
  ASSUME FilterInv, NEW f \in BOOLEAN, CollectAndSend(f), UNCHANGED <<file, mode, hash, gaps>>,
         watched' \in BOOLEAN, event' \in BOOLEAN, watched' => mode = "file",
         Quiet' /\ f => Known
  PROVE  FilterInv'
<1>1. i' = 1 /\ values' = Nothing /\ missed' = {}
  BY DEF CollectAndSend, Fresh
<1>2. /\ force' \in BOOLEAN /\ (force' => f)
      /\ pc' = "read" \/ (pc' = "select" /\ mode = "neither")
  BY DEF CollectAndSend
<1>3. values' = ReadSoFar(file)'
  <2>1. Before(file)' = {}
    BY <1>1 DEF Before
  <2> QED  BY <1>1, <2>1 DEF ReadSoFar, Nothing
<1>4. Known' = Known
  BY DEF Known, RenderedWithout
<1> QED  BY <1>1, <1>2, <1>3, <1>4 DEF FilterInv, Quiet

(* A collection ends, and the filter knows the file.                       *)
LEMMA CollectOver ==
  ASSUME FilterInv, CollectEnds, UNCHANGED <<file, mode, watched, event>>, Quiet => Known'
  PROVE  FilterInv'
<1>1. i' = 1 /\ missed' = {} /\ force' = FALSE /\ pc' = "select"
  BY DEF CollectEnds, Fresh
<1>2. i' \in Nat \ {0}
  BY <1>1
<1>3. force' \in BOOLEAN
  BY <1>1
<1>4. Quiet' = Quiet
  BY DEF Quiet
<1> QED  BY <1>1, <1>2, <1>3, <1>4 DEF FilterInv

LEMMA FilterStep == FilterInv /\ [Next]_vars => FilterInv'
<1> SUFFICES ASSUME FilterInv, [Next]_vars PROVE FilterInv'
  OBVIOUS
<1> USE DEF FilterInv, Quiet
<1>r. UNCHANGED <<file, gaps, hash>> => Known' = Known
  BY DEF Known, RenderedWithout
<1>s. UNCHANGED <<file, missed, i>> => ReadSoFar(file)' = ReadSoFar(file)
  BY DEF ReadSoFar, Before
<1>1. ASSUME NEW c \in Configurations, Write(c) PROVE FilterInv'
  BY <1>1 DEF Write, histories
<1>2. ASSUME NEW c \in Configurations, Replace(c) PROVE FilterInv'
  BY <1>2 DEF Replace, histories
<1>3. CASE Cancel
  BY <1>3, <1>r, <1>s DEF Cancel, environment, histories
<1>4. CASE Start
  <2>1. UNCHANGED <<mode, file, event, hash, gaps>> /\ ~event /\ ~watched
    BY <1>4 DEF Start, environment
  <2>2. CASE pc' = "done" /\ UNCHANGED <<watched, force, i, values, missed>>
    BY <2>1, <2>2
  <2>3. CASE watched' \in {FALSE, mode = "file"} /\ CollectAndSend(FALSE)
    <3>1. watched' \in BOOLEAN /\ event' \in BOOLEAN /\ (watched' => mode = "file")
      BY <2>1, <2>3
    <3> QED  BY <2>1, <2>3, <3>1, CollectStarts
  <2> QED  BY <1>4, <2>2, <2>3 DEF Start
<1>5. CASE CheckTick
  BY <1>5, CollectStarts DEF CheckTick, environment
<1>6. CASE ForceTick
  BY <1>6, CollectStarts DEF ForceTick, environment
<1>7. CASE WatchEvent
  BY <1>7, CollectStarts DEF WatchEvent, environment
<1>8. CASE Return \/ WatcherCloses
  BY <1>8 DEF Return, WatcherCloses, environment, histories
<1>9. CASE ReadKey
  <2>1. /\ UNCHANGED <<mode, file, watched, event, pc, force, hash, gaps>> /\ pc = "read" /\ i' = i + 1
        /\ i \in DOMAIN ConfigKeys
        /\ \/ KeyRead /\ missed' = missed
           \/ values' = values /\ missed' = missed \cup {ConfigKeys[i]}
    BY <1>9, KeyFacts DEF ReadKey, environment
  <2>2. Quiet => values' = ReadSoFar(file)'
    BY <2>1, OneMoreKey, OneKeyMissed
  <2>3. \A key \in missed' : \E n \in 1..(i' - 1) : n \in DOMAIN ConfigKeys /\ ConfigKeys[n] = key
    BY <2>1, MissedKeys
  <2>4. i' \in Nat \ {0}
    BY <2>1
  <2> QED  BY <1>r, <2>1, <2>2, <2>3, <2>4
<1>10. CASE Decide
  <2>1. /\ UNCHANGED <<mode, file, watched, event>>
        /\ pc = "read" /\ i > Len(ConfigKeys)
        /\ \/ pc' = "send" /\ UNCHANGED <<force, i, values, missed>>
           \/ CollectEnds
    BY <1>10 DEF Decide, environment
  <2>2. ASSUME Quiet PROVE Known'
    <3>1. CASE force
      <4>1. UNCHANGED <<file, gaps, hash>>
        BY <1>10, <3>1 DEF Decide, environment
      <4> QED  BY <1>r, <2>1, <2>2, <3>1, <4>1
    <3>2. CASE ~force
      <4>1. values = RenderedWithout(file, missed)
        BY <2>1, <2>2, WholeFile
      <4>2. gaps' = missed /\ file' = file
        BY <1>10, <3>2 DEF Decide, environment
      <4>3. ASSUME ~(DOMAIN file \subseteq missed) PROVE hash' = values
        <5>1. values # Nothing
          <6>1. DOMAIN values = DOMAIN file \ missed /\ DOMAIN Nothing = {}
            BY <4>1 DEF RenderedWithout, Nothing
          <6> QED  BY <4>3, <6>1
        <5> QED  BY <1>10, <3>2, <5>1 DEF Decide, Changed
      <4> QED  BY <4>1, <4>2, <4>3 DEF Known, RenderedWithout
    <3> QED  BY <3>1, <3>2
  <2>3. CASE pc' = "send" /\ UNCHANGED <<force, i, values, missed>>
    BY <2>1, <2>2, <2>3
  <2>4. CASE CollectEnds
    BY <2>1, <2>2, <2>4, CollectOver
  <2> QED  BY <2>1, <2>3, <2>4
<1>11. CASE Send \/ Abandon
  <2>1. CollectEnds /\ UNCHANGED <<mode, file, watched, event, hash, gaps>> /\ pc = "send"
    BY <1>11 DEF Send, Abandon, environment
  <2> QED  BY <1>r, <2>1, CollectOver
<1>12. CASE UNCHANGED vars
  BY <1>12, <1>r, <1>s DEF vars
<1> QED
  BY <1>1, <1>2, <1>3, <1>4, <1>5, <1>6, <1>7, <1>8, <1>9, <1>10, <1>11, <1>12 DEF Next

(* No write of gnoland's configuration is missed: with the watch in place  *)
(* and its events taken, the delta filter holds what the file says, but    *)
(* for the keys its last unforced collection failed to read, for any keys  *)
(* and failures, whatever was written in the middle of reads and whenever  *)
(* the tickers fired.                                                      *)
THEOREM NoWriteMissed == Spec => []FilterKnowsFile
<1>1. Init => FilterInv
  <2> SUFFICES ASSUME Init PROVE FilterInv
    OBVIOUS
  <2>1. /\ i = 1 /\ file \in Configurations /\ pc = "start" /\ missed = {}
        /\ watched = FALSE /\ event = FALSE /\ force = FALSE
    BY DEF Init
  <2>2. i \in Nat \ {0}
    BY <2>1
  <2>3. watched \in BOOLEAN /\ event \in BOOLEAN /\ force \in BOOLEAN
    BY <2>1
  <2>4. ~Quiet /\ ~watched /\ ~event
    BY <2>1 DEF Quiet
  <2> QED  BY <2>1, <2>2, <2>3, <2>4 DEF FilterInv
<1>2. FilterInv => FilterKnowsFile
  BY DEF FilterInv, FilterKnowsFile, Quiet, Known
<1> QED  BY <1>1, <1>2, FilterStep, PTL DEF Spec
=============================================================================
