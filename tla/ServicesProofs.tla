-------------------------- MODULE ServicesProofs --------------------------
(***************************************************************************)
(* Proofs about the services beside the node store: the label of the       *)
(* fabric (FabricLabel), firmware updates (Firmware), the diagnostics of a *)
(* Thread network (ThreadDiagnostics) and the check-ins of devices that are*)
(* connected now and then (CheckIn), for any connections, nodes, texts,    *)
(* hosts, versions, blocks, meshes, border routers, keys and faults.       *)
(*                                                                         *)
(* LabelInv follows the label of a set through its places (PlaceInv) and   *)
(* says of a node that calls the fabric something else why (Excused).      *)
(* FirmwareInv follows an upload id from its reservation (TicketInv), an   *)
(* image from the ledger to the store through the request that fetches it  *)
(* (VouchInv), and the blocks a device has of one image (WholeInv).        *)
(* DiagInv says of every collection what it has read and from when         *)
(* (SweepOK), relative to the items and the clock of its border router,    *)
(* and that the one that is listed is the one that has not ended           *)
(* (ListedInv).                                                            *)
(*                                                                         *)
(* That check-ins are heard once rests on one fact about keys: a key is    *)
(* generated once, for one node (OwnerInv), and a key that has yet to be   *)
(* stored has read nothing so far (PendingInv).  From it follow that what  *)
(* is in the air is no newer than its sender (FreshInv), that what was     *)
(* accepted is covered by the counter in memory even when a check-in is    *)
(* noted under a later key than the one that read it (OnceInv), and what a *)
(* request under way leaves of the agreement between a device and the      *)
(* store (AgreeInv).                                                       *)
(***************************************************************************)
EXTENDS CheckIn, FabricLabel, Firmware, ThreadDiagnostics, Loops, SequenceTheorems,
        FiniteSetTheorems, WellFoundedInduction, TLAPS

-----------------------------------------------------------------------------
(* The label of the fabric.                                                *)

\* A text that Normalize leaves as it is, and one of which it cuts at most
\* blanks at the end, which the first call may have left there.
Begins(s) == s \in Seq(STRING) /\ Len(s) \in 1 .. MaxLabelLen /\ ~ IsBlank(s[1])
Clean(s) == Begins(s) /\ ~ IsBlank(s[Len(s)])

SettingStates == {"fabric", "config", "snapshot", "push"}
TellingStates == {"read", "tell"}

Settings == [at : {"idle"} \cup SettingStates \cup TellingStates,
             label : Seq(STRING), todo : SUBSET LabelNodes]

LabelTypeOK ==
    /\ owner \in LabelConns \cup {Nobody}
    /\ fabricLabel \in Seq(STRING) /\ fabricSaved \in Seq(STRING) /\ cachedLabel \in Seq(STRING)
    /\ Clean(configLabel) /\ Clean(savedLabel)
    /\ devLabel \in [LabelNodes -> Seq(STRING)]
    /\ known \subseteq LabelNodes
    /\ setting \in [LabelConns -> Settings]
    /\ late \subseteq Seq(STRING)
    /\ split \in BOOLEAN

\* Who sets the label owns it; what it sets is normalised.
SetterInv ==
    \A c \in LabelConns : setting[c].at \in SettingStates => owner = c /\ Begins(setting[c].label)

\* A commissioning tells one node.
TellerInv ==
    \A c \in LabelConns : setting[c].at \in TellingStates =>
        \A m, n \in setting[c].todo : m = n

\* How far the label of a set has come, and what a late one leaves behind.
PlaceInv ==
    /\ late # {} => split
    /\ \A c \in LabelConns :
          /\ setting[c].at \in {"config", "snapshot", "push"} => late = {}
          /\ setting[c].at = "config" => fabricLabel = setting[c].label /\ fabricSaved = fabricLabel
          /\ setting[c].at \in {"snapshot", "push"} =>
                ~ split /\ configLabel = Normalize(setting[c].label)
    /\ (~ split /\ \A c \in LabelConns : setting[c].at # "config") =>
          /\ cachedLabel = fabricLabel /\ fabricSaved = fabricLabel
          /\ configLabel = Normalize(fabricLabel)
    /\ ~ split => savedLabel = configLabel

\* A node that calls the fabric something else will be told, could not be, or
\* was told an older label last.
Excused(n) ==
    \/ Normalize(devLabel[n]) = configLabel
    \/ n \in missed \cup overtaken
    \/ \E c \in LabelConns :
          \/ setting[c].at = "snapshot"
          \/ setting[c].at = "push" /\ n \in setting[c].todo
          \/ setting[c].at = "read" /\ n \in setting[c].todo
          \/ /\ setting[c].at = "tell" /\ n \in setting[c].todo
             /\ Normalize(setting[c].label) = configLabel

FollowInv == \A n \in known : Excused(n)

LabelInv == LabelTypeOK /\ SetterInv /\ TellerInv /\ PlaceInv /\ FollowInv

-----------------------------------------------------------------------------
(* What normalising a label does.                                          *)

\* What str::trim leaves: nothing of a blank text, or what is between the
\* first and the last character that is not blank.
TrimLeaves(s, t) ==
    \/ t = <<>> /\ \A i \in 1 .. Len(s) : IsBlank(s[i])
    \/ \E a \in 1 .. Len(s), b \in 1 .. Len(s) :
          /\ a <= b /\ t = SubSeq(s, a, b) /\ ~ IsBlank(s[a]) /\ ~ IsBlank(s[b])
          /\ \A i \in 1 .. Len(s) : ~ IsBlank(s[i]) => a <= i /\ i <= b

LEMMA TrimIs ==
    ASSUME NEW s \in Seq(STRING)
    PROVE  TrimLeaves(s, Trim(s))
<1> DEFINE kept == {i \in 1 .. Len(s) : ~ IsBlank(s[i])}
           a == CHOOSE i \in kept : \A j \in kept : i <= j
           b == CHOOSE i \in kept : \A j \in kept : i >= j
<1>1. Len(s) \in Nat /\ kept \in SUBSET (0 .. Len(s)) /\ kept \in SUBSET Nat
    BY LenProperties
<1>2. CASE kept = {}
    BY <1>2 DEF Trim, TrimLeaves
<1>3. CASE kept # {}
  <2>1. Trim(s) = SubSeq(s, a, b)
    BY <1>3 DEF Trim
  <2>2. a \in kept /\ \A j \in kept : a <= j
    <3>1. \E i \in kept : \A j \in kept : i <= j
      BY <1>1, <1>3, HasLeast
    <3> HIDE DEF kept
    <3> QED
      BY <3>1
  <2>3. b \in kept /\ \A j \in kept : b >= j
    <3>1. \E i \in kept : \A j \in kept : i >= j
      BY <1>1, <1>3, HasGreatest
    <3> HIDE DEF kept
    <3> QED
      BY <3>1
  <2> HIDE DEF a, b
  <2>4. a \in 1 .. Len(s) /\ b \in 1 .. Len(s) /\ ~ IsBlank(s[a]) /\ ~ IsBlank(s[b])
    BY <2>2, <2>3
  <2>5. \A i \in 1 .. Len(s) : ~ IsBlank(s[i]) => a <= i /\ i <= b
    BY <1>1, <2>2, <2>3, <2>4
  <2>6. a <= b
    BY <2>2, <2>3
  <2> QED
    BY <2>1, <2>4, <2>5, <2>6 DEF TrimLeaves
<1> QED
    BY <1>2, <1>3

\* The beginning of a text that is not empty and does not begin with a blank.
LEMMA CutBegins ==
    ASSUME NEW s \in Seq(STRING), Len(s) > 0, ~ IsBlank(s[1])
    PROVE  LET t == SubSeq(s, 1, IF Len(s) < MaxLabelLen THEN Len(s) ELSE MaxLabelLen)
           IN  /\ Begins(t)
               /\ Len(s) <= MaxLabelLen => t = s
<1> DEFINE k == IF Len(s) < MaxLabelLen THEN Len(s) ELSE MaxLabelLen
<1>1. MaxLabelLen \in Nat /\ MaxLabelLen >= 1
    BY LabelAssumption
<1>2. Len(s) \in Nat
    BY LenProperties
<1>3. k \in 1 .. Len(s) /\ k <= MaxLabelLen /\ (Len(s) <= MaxLabelLen => k = Len(s))
    BY <1>1, <1>2
<1> HIDE DEF k
<1>4. \A i \in 1 .. k : s[i] \in STRING
    BY <1>1, <1>2, <1>3, ElementOfSeq
<1>5. /\ SubSeq(s, 1, k) \in Seq(STRING) /\ Len(SubSeq(s, 1, k)) = k
      /\ SubSeq(s, 1, k)[1] = s[1]
    BY <1>1, <1>2, <1>3, <1>4, SubSeqProperties
<1>6. Len(s) <= MaxLabelLen => SubSeq(s, 1, k) = s
    BY <1>3, SubSeqFull
<1>7. Begins(SubSeq(s, 1, k))
    BY <1>1, <1>2, <1>3, <1>5 DEF Begins
<1> QED
    BY <1>6, <1>7 DEF k

\* What is left of a text that is not blank.
LEMMA TrimKeeps ==
    ASSUME NEW s \in Seq(STRING), Trim(s) # <<>>
    PROVE  /\ Trim(s) \in Seq(STRING) /\ Len(Trim(s)) \in 1 .. Len(s)
           /\ ~ IsBlank(Trim(s)[1]) /\ ~ IsBlank(Trim(s)[Len(Trim(s))])
           /\ (~ IsBlank(s[1]) /\ ~ IsBlank(s[Len(s)]) => Trim(s) = s)
<1>1. PICK a \in 1 .. Len(s), b \in 1 .. Len(s) :
         /\ a <= b /\ Trim(s) = SubSeq(s, a, b) /\ ~ IsBlank(s[a]) /\ ~ IsBlank(s[b])
         /\ \A i \in 1 .. Len(s) : ~ IsBlank(s[i]) => a <= i /\ i <= b
    BY TrimIs DEF TrimLeaves
<1>2. Len(s) \in Nat
    BY LenProperties
<1>3. \A i \in a .. b : s[i] \in STRING
    BY <1>2, ElementOfSeq
<1>4. /\ SubSeq(s, a, b) \in Seq(STRING) /\ Len(SubSeq(s, a, b)) = b - a + 1
      /\ \A i \in 1 .. b - a + 1 : SubSeq(s, a, b)[i] = s[a + i - 1]
    BY <1>1, <1>2, <1>3, SubSeqProperties
<1>5. b - a + 1 \in 1 .. Len(s)
    BY <1>1, <1>2
<1>6. SubSeq(s, a, b)[1] = s[a] /\ SubSeq(s, a, b)[b - a + 1] = s[b]
  <2>1. 1 \in 1 .. b - a + 1 /\ b - a + 1 \in 1 .. b - a + 1 /\ a + 1 - 1 = a /\ a + (b - a + 1) - 1 = b
    BY <1>1, <1>2
  <2>2. SubSeq(s, a, b)[1] = s[a + 1 - 1]
    BY <1>4, <2>1
  <2>3. SubSeq(s, a, b)[b - a + 1] = s[a + (b - a + 1) - 1]
    BY <1>4, <2>1
  <2> QED
    BY <2>1, <2>2, <2>3
<1>7. ASSUME ~ IsBlank(s[1]), ~ IsBlank(s[Len(s)]) PROVE Trim(s) = s
  <2>1. a = 1 /\ b = Len(s)
    BY <1>1, <1>2, <1>7
  <2> QED
    BY <1>1, <2>1, SubSeqFull
<1> QED
    BY <1>1, <1>4, <1>5, <1>6, <1>7

LEMMA NormalBegins ==
    ASSUME NEW s \in Seq(STRING)
    PROVE  Begins(Normalize(s))
<1> DEFINE effective == IF Trim(s) = <<>> THEN LabelDefault ELSE Trim(s)
<1>1. effective \in Seq(STRING) /\ Len(effective) > 0 /\ ~ IsBlank(effective[1])
  <2>1. CASE Trim(s) = <<>>
    BY <2>1, LabelAssumption
  <2>2. CASE Trim(s) # <<>>
    BY <2>2, TrimKeeps
  <2> QED
    BY <2>1, <2>2
<1>2. Normalize(s) = SubSeq(effective, 1, IF Len(effective) < MaxLabelLen THEN Len(effective)
                                          ELSE MaxLabelLen)
    BY DEF Normalize
<1> HIDE DEF effective
<1> QED
    BY <1>1, <1>2, CutBegins

LEMMA NormalCleans ==
    ASSUME NEW s, Begins(s)
    PROVE  Clean(Normalize(s)) /\ (Clean(s) => Normalize(s) = s)
<1>1. s \in Seq(STRING) /\ Len(s) \in 1 .. MaxLabelLen /\ ~ IsBlank(s[1]) /\ MaxLabelLen \in Nat
    BY LabelAssumption DEF Begins
<1>2. Trim(s) # <<>>
  <2>1. CASE Trim(s) = <<>>
    <3>1. PICK a \in 1 .. Len(s), b \in 1 .. Len(s) : a <= b /\ Trim(s) = SubSeq(s, a, b)
      BY <1>1, TrimIs DEF TrimLeaves
    <3>2. \A i \in a .. b : s[i] \in STRING
      BY <1>1, ElementOfSeq
    <3>3. Len(SubSeq(s, a, b)) = b - a + 1
      BY <1>1, <3>1, <3>2, SubSeqProperties
    <3> QED
      BY <2>1, <3>1, <3>3, EmptySeq
  <2> QED
    BY <2>1
<1>3. /\ Trim(s) \in Seq(STRING) /\ Len(Trim(s)) \in 1 .. Len(s)
      /\ ~ IsBlank(Trim(s)[1]) /\ ~ IsBlank(Trim(s)[Len(Trim(s))])
      /\ (~ IsBlank(s[1]) /\ ~ IsBlank(s[Len(s)]) => Trim(s) = s)
    BY <1>1, <1>2, TrimKeeps
<1>4. Len(Trim(s)) <= MaxLabelLen /\ Len(Trim(s)) > 0
    BY <1>1, <1>3
<1>5. Normalize(s) = SubSeq(Trim(s), 1, IF Len(Trim(s)) < MaxLabelLen THEN Len(Trim(s))
                                        ELSE MaxLabelLen)
    BY <1>2 DEF Normalize
<1>6. Normalize(s) = Trim(s) /\ Begins(Normalize(s))
    BY <1>3, <1>4, <1>5, CutBegins
<1> QED
    BY <1>1, <1>3, <1>6 DEF Clean

-----------------------------------------------------------------------------
(* What an action does to the request of a connection.                     *)

Becomes(c, x, l, todo) ==
    /\ setting' \in [LabelConns -> Settings]
    /\ setting'[c].at = x /\ setting'[c].label = l /\ setting'[c].todo = todo
    /\ \A d \in LabelConns : d # c => setting'[d] = setting[d]

LEMMA BecomesIs ==
    ASSUME LabelTypeOK, NEW c \in LabelConns, NEW x, NEW l \in Seq(STRING),
           NEW todo \in SUBSET LabelNodes, x \in {"idle"} \cup SettingStates \cup TellingStates,
           setting' = [setting EXCEPT ![c] = [at |-> x, label |-> l, todo |-> todo]]
    PROVE  Becomes(c, x, l, todo)
<1>1. [at |-> x, label |-> l, todo |-> todo] \in Settings
    BY DEF Settings
<1>2. setting \in [LabelConns -> Settings]
    BY DEF LabelTypeOK
<1>3. setting' \in [LabelConns -> Settings]
    BY <1>1, <1>2
<1>4. setting'[c] = [at |-> x, label |-> l, todo |-> todo]
    BY <1>2
<1>5. \A d \in LabelConns : d # c => setting'[d] = setting[d]
    BY <1>2
<1> QED
    BY <1>3, <1>4, <1>5 DEF Becomes

\* One field of it, or two.
LEMMA BecomesPart ==
    ASSUME LabelTypeOK, NEW c \in LabelConns
    PROVE  /\ setting[c].at \in {"idle"} \cup SettingStates \cup TellingStates
           /\ setting[c].label \in Seq(STRING) /\ setting[c].todo \in SUBSET LabelNodes
           /\ \A x \in {"idle"} \cup SettingStates \cup TellingStates :
                 Moves(c, x) => Becomes(c, x, setting[c].label, setting[c].todo)
           /\ \A todo \in SUBSET LabelNodes :
                 /\ setting' = [setting EXCEPT ![c].todo = todo]
                       => Becomes(c, setting[c].at, setting[c].label, todo)
                 /\ setting' = [setting EXCEPT ![c].at = "push", ![c].todo = todo]
                       => Becomes(c, "push", setting[c].label, todo)
           /\ \A l \in Seq(STRING) :
                 setting' = [setting EXCEPT ![c].at = "tell", ![c].label = l]
                    => Becomes(c, "tell", l, setting[c].todo)
           /\ Rests(c) => Becomes(c, "idle", <<>>, {})
<1>1. setting \in [LabelConns -> Settings]
    BY DEF LabelTypeOK
<1>2. /\ setting[c].at \in {"idle"} \cup SettingStates \cup TellingStates
      /\ setting[c].label \in Seq(STRING) /\ setting[c].todo \in SUBSET LabelNodes
    BY <1>1 DEF Settings
<1>4. ASSUME NEW x \in {"idle"} \cup SettingStates \cup TellingStates, Moves(c, x)
      PROVE  Becomes(c, x, setting[c].label, setting[c].todo)
  <2>1. setting' \in [LabelConns -> Settings]
    BY <1>1, <1>4 DEF Settings, Moves
  <2> QED
    BY <1>1, <1>4, <2>1 DEF Settings, Becomes, Moves
<1>5. ASSUME NEW todo \in SUBSET LabelNodes, setting' = [setting EXCEPT ![c].todo = todo]
      PROVE  Becomes(c, setting[c].at, setting[c].label, todo)
  <2>1. setting' \in [LabelConns -> Settings]
    BY <1>1, <1>5 DEF Settings
  <2> QED
    BY <1>1, <1>5, <2>1 DEF Settings, Becomes
<1>6. ASSUME NEW todo \in SUBSET LabelNodes,
             setting' = [setting EXCEPT ![c].at = "push", ![c].todo = todo]
      PROVE  Becomes(c, "push", setting[c].label, todo)
  <2>1. setting' \in [LabelConns -> Settings]
    BY <1>1, <1>6 DEF Settings, SettingStates
  <2> QED
    BY <1>1, <1>6, <2>1 DEF Settings, Becomes, SettingStates
<1>7. ASSUME NEW l \in Seq(STRING),
             setting' = [setting EXCEPT ![c].at = "tell", ![c].label = l]
      PROVE  Becomes(c, "tell", l, setting[c].todo)
  <2>1. setting' \in [LabelConns -> Settings]
    BY <1>1, <1>7 DEF Settings, TellingStates
  <2> QED
    BY <1>1, <1>7, <2>1 DEF Settings, Becomes, TellingStates
<1>8. ASSUME Rests(c) PROVE Becomes(c, "idle", <<>>, {})
  <2>1. setting' = [setting EXCEPT ![c] = [at |-> "idle", label |-> <<>>, todo |-> {}]]
    BY <1>8 DEF Rests, Resting
  <2>2. <<>> \in Seq(STRING)
    OBVIOUS
  <2> QED
    BY <2>1, <2>2, BecomesIs
<1> QED
    BY <1>2, <1>4, <1>5, <1>6, <1>7, <1>8

-----------------------------------------------------------------------------
(* The steps of the label.                                                 *)

\* Nothing but the owner changes, or who is away.
LEMMA LabelQuiet ==
    ASSUME LabelInv,
           UNCHANGED <<fabricLabel, fabricSaved, cachedLabel, configLabel, savedLabel, devLabel,
                       known, setting, late, missed, overtaken, split>>,
           owner' \in LabelConns \cup {Nobody},
           \A c \in LabelConns : setting[c].at \in SettingStates => owner' = owner
    PROVE  LabelInv'
<1>1. LabelTypeOK'
    BY DEF LabelInv, LabelTypeOK
<1>2. SetterInv' /\ TellerInv'
    BY DEF LabelInv, SetterInv, TellerInv
<1>3. PlaceInv'
    BY DEF LabelInv, PlaceInv
<1>4. FollowInv'
    BY DEF LabelInv, FollowInv, Excused
<1> QED
    BY <1>1, <1>2, <1>3, <1>4 DEF LabelInv

LEMMA OwnerSets ==
    ASSUME LabelInv, NEW c \in LabelConns, NEW d \in LabelConns,
           setting[c].at \in SettingStates, setting[d].at \in SettingStates
    PROVE  c = d
BY DEF LabelInv, SetterInv

LEMMA LabelSetLabel ==
    ASSUME LabelInv, NEW c \in LabelConns, NEW text \in LabelRequests, SetLabel(c, text)
    PROVE  LabelInv'
<1>1. /\ UNCHANGED <<fabricLabel, fabricSaved, cachedLabel, configLabel, savedLabel, devLabel, known,
                     late, missed, overtaken, split>>
      /\ owner' = c /\ Claims(c) /\ setting[c].at = "idle"
    BY DEF SetLabel, labelHistory
<1>2. Begins(Normalize(text))
    BY NormalBegins, LabelAssumption
<1>3. Becomes(c, "fabric", Normalize(text), {})
    BY <1>2, BecomesIs DEF SetLabel, LabelInv, SettingStates, Begins
<1>4. \A d \in LabelConns : setting[d].at \notin SettingStates
  <2>1. ASSUME NEW d \in LabelConns, setting[d].at \in SettingStates PROVE FALSE
    <3>1. owner = d
      BY <2>1 DEF LabelInv, SetterInv
    <3>2. d # Nobody
      BY LabelAssumption DEF Nobody
    <3>3. d = c
      BY <1>1, <3>1, <3>2 DEF Claims
    <3> QED
      BY <1>1, <2>1, <3>3 DEF SettingStates
  <2> QED
    BY <2>1
<1>5. LabelTypeOK'
    BY <1>1, <1>3 DEF LabelInv, LabelTypeOK, Becomes
<1>6. SetterInv' /\ TellerInv'
    BY <1>1, <1>2, <1>3, <1>4 DEF LabelInv, SetterInv, TellerInv, Becomes, SettingStates, TellingStates
<1>7. PlaceInv'
    BY <1>1, <1>3 DEF LabelInv, PlaceInv, Becomes
<1>8. FollowInv'
    BY <1>1, <1>3 DEF LabelInv, FollowInv, Excused, Becomes
<1> QED
    BY <1>5, <1>6, <1>7, <1>8 DEF LabelInv

\* The fabric refuses the label, or takes it and cannot be saved, or the
\* caller no longer waits for it.
LEMMA LabelFabricFails ==
    ASSUME LabelInv, NEW c \in LabelConns,
           FabricRefused(c) \/ FabricUnsaved(c) \/ FabricTimeout(c)
    PROVE  LabelInv'
<1>1. /\ UNCHANGED <<owner, fabricSaved, cachedLabel, configLabel, savedLabel, devLabel, known,
                     missed, overtaken>>
      /\ setting[c].at = "fabric" /\ Rests(c)
    BY DEF FabricRefused, FabricUnsaved, FabricTimeout, labelHistory
<1>2. Becomes(c, "idle", <<>>, {})
    BY <1>1, BecomesPart DEF LabelInv
<1>3. setting[c].label \in Seq(STRING)
    BY BecomesPart DEF LabelInv
<1>4. \/ UNCHANGED <<fabricLabel, late, split>>
      \/ fabricLabel' = setting[c].label /\ late' = late /\ split' = TRUE
      \/ fabricLabel' = fabricLabel /\ late' = late \cup {setting[c].label} /\ split' = TRUE
    BY DEF FabricRefused, FabricUnsaved, FabricTimeout, labelHistory
<1>5. LabelTypeOK'
    BY <1>1, <1>2, <1>3, <1>4 DEF LabelInv, LabelTypeOK, Becomes
<1>6. SetterInv' /\ TellerInv'
    BY <1>1, <1>2 DEF LabelInv, SetterInv, TellerInv, Becomes, SettingStates, TellingStates
<1>7. \A d \in LabelConns : setting'[d].at \notin SettingStates
    BY <1>1, <1>2, OwnerSets DEF Becomes, SettingStates
<1>8. PlaceInv'
    BY <1>1, <1>2, <1>4, <1>7 DEF LabelInv, PlaceInv, Becomes, SettingStates
<1>9. FollowInv'
    BY <1>1, <1>2 DEF LabelInv, FollowInv, Excused, Becomes
<1> QED
    BY <1>5, <1>6, <1>8, <1>9 DEF LabelInv

LEMMA LabelFabricSet ==
    ASSUME LabelInv, NEW c \in LabelConns, FabricSet(c)
    PROVE  LabelInv'
<1>1. /\ UNCHANGED <<owner, cachedLabel, configLabel, savedLabel, devLabel, known, late,
                     missed, overtaken, split>>
      /\ setting[c].at = "fabric" /\ late = {} /\ Moves(c, "config")
      /\ fabricLabel' = setting[c].label /\ fabricSaved' = setting[c].label
    BY DEF FabricSet, labelHistory
<1>2. Becomes(c, "config", setting[c].label, setting[c].todo) /\ setting[c].label \in Seq(STRING)
    BY <1>1, BecomesPart DEF LabelInv, SettingStates
<1>3. LabelTypeOK'
    BY <1>1, <1>2 DEF LabelInv, LabelTypeOK, Becomes
<1>4. SetterInv' /\ TellerInv'
    BY <1>1, <1>2 DEF LabelInv, SetterInv, TellerInv, Becomes, SettingStates, TellingStates
<1>5. \A d \in LabelConns : d # c => setting'[d].at \notin SettingStates
    BY <1>1, <1>2, OwnerSets DEF Becomes, SettingStates
<1>6. PlaceInv'
    BY <1>1, <1>2, <1>5 DEF LabelInv, PlaceInv, Becomes, SettingStates
<1>7. FollowInv'
    BY <1>1, <1>2 DEF LabelInv, FollowInv, Excused, Becomes
<1> QED
    BY <1>3, <1>4, <1>6, <1>7 DEF LabelInv

LEMMA LabelFabricLate ==
    ASSUME LabelInv, NEW l \in late, FabricLate(l)
    PROVE  LabelInv'
<1>1. /\ UNCHANGED <<owner, cachedLabel, configLabel, savedLabel, devLabel, known, setting,
                     missed, overtaken>>
      /\ late' = late \ {l} /\ fabricLabel' = l /\ fabricSaved' = l /\ split' = TRUE
    BY DEF FabricLate
<1>2. LabelTypeOK'
    BY <1>1 DEF LabelInv, LabelTypeOK
<1>3. SetterInv' /\ TellerInv'
    BY <1>1 DEF LabelInv, SetterInv, TellerInv
<1>4. \A c \in LabelConns : setting[c].at \notin {"config", "snapshot", "push"}
    BY DEF LabelInv, PlaceInv
<1>5. PlaceInv'
    BY <1>1, <1>4 DEF PlaceInv
<1>6. FollowInv'
    BY <1>1 DEF LabelInv, FollowInv, Excused
<1> QED
    BY <1>2, <1>3, <1>5, <1>6 DEF LabelInv

LEMMA LabelConfigSet ==
    ASSUME LabelInv, NEW c \in LabelConns, ConfigSet(c)
    PROVE  LabelInv'
<1>1. /\ UNCHANGED <<owner, fabricLabel, fabricSaved, devLabel, known, late, missed, overtaken>>
      /\ setting[c].at = "config" /\ Moves(c, "snapshot")
      /\ configLabel' = Normalize(setting[c].label) /\ savedLabel' = configLabel'
      /\ cachedLabel' = setting[c].label /\ split' = FALSE
    BY DEF ConfigSet
<1>2. Becomes(c, "snapshot", setting[c].label, setting[c].todo) /\ setting[c].label \in Seq(STRING)
    BY <1>1, BecomesPart DEF LabelInv, SettingStates
<1>3. Begins(setting[c].label)
    BY <1>1 DEF LabelInv, SetterInv, SettingStates
<1>4. Clean(configLabel')
    BY <1>1, <1>3, NormalCleans
<1>5. LabelTypeOK'
    BY <1>1, <1>2, <1>4 DEF LabelInv, LabelTypeOK, Becomes
<1>6. SetterInv' /\ TellerInv'
    BY <1>1, <1>2 DEF LabelInv, SetterInv, TellerInv, Becomes, SettingStates, TellingStates
<1>7. \A d \in LabelConns : d # c => setting'[d].at \notin SettingStates
    BY <1>1, <1>2, OwnerSets DEF Becomes, SettingStates
<1>8. fabricLabel = setting[c].label /\ fabricSaved = fabricLabel /\ late = {}
    BY <1>1 DEF LabelInv, PlaceInv
<1>9. PlaceInv'
    BY <1>1, <1>2, <1>7, <1>8 DEF PlaceInv, Becomes, SettingStates
<1>10. FollowInv'
    BY <1>1, <1>2 DEF FollowInv, Excused, Becomes
<1> QED
    BY <1>5, <1>6, <1>9, <1>10 DEF LabelInv

LEMMA LabelConfigUnsaved ==
    ASSUME LabelInv, NEW c \in LabelConns, ConfigUnsaved(c)
    PROVE  LabelInv'
<1>1. /\ UNCHANGED <<owner, fabricLabel, fabricSaved, cachedLabel, savedLabel, devLabel, known, late,
                     overtaken>>
      /\ setting[c].at = "config" /\ Rests(c)
      /\ configLabel' = Normalize(setting[c].label) /\ split' = TRUE /\ missed' = known
    BY DEF ConfigUnsaved
<1>2. Becomes(c, "idle", <<>>, {})
    BY <1>1, BecomesPart DEF LabelInv
<1>3. Clean(configLabel')
  <2>1. Begins(setting[c].label)
    BY <1>1 DEF LabelInv, SetterInv, SettingStates
  <2> QED
    BY <1>1, <2>1, NormalCleans
<1>4. LabelTypeOK'
    BY <1>1, <1>2, <1>3 DEF LabelInv, LabelTypeOK, Becomes
<1>5. SetterInv' /\ TellerInv'
    BY <1>1, <1>2 DEF LabelInv, SetterInv, TellerInv, Becomes, SettingStates, TellingStates
<1>6. \A d \in LabelConns : setting'[d].at \notin SettingStates
    BY <1>1, <1>2, OwnerSets DEF Becomes, SettingStates
<1>7. PlaceInv'
    BY <1>1, <1>6 DEF PlaceInv, SettingStates
<1>8. FollowInv'
    BY <1>1 DEF FollowInv, Excused
<1> QED
    BY <1>4, <1>5, <1>7, <1>8 DEF LabelInv

LEMMA LabelPushSnapshot ==
    ASSUME LabelInv, NEW c \in LabelConns, PushSnapshot(c)
    PROVE  LabelInv'
<1>1. /\ UNCHANGED <<owner, fabricLabel, fabricSaved, cachedLabel, configLabel, savedLabel, devLabel,
                     known, late, overtaken, split>>
      /\ setting[c].at = "snapshot"
      /\ setting' = [setting EXCEPT ![c].at = "push", ![c].todo = known \ away]
      /\ missed' = missed \cup (known \cap away)
    BY DEF PushSnapshot
<1>2. Becomes(c, "push", setting[c].label, known \ away) /\ setting[c].label \in Seq(STRING)
  <2>1. known \ away \in SUBSET LabelNodes
    BY DEF LabelInv, LabelTypeOK
  <2> QED
    BY <1>1, <2>1, BecomesPart DEF LabelInv
<1>3. LabelTypeOK'
    BY <1>1, <1>2 DEF LabelInv, LabelTypeOK, Becomes
<1>4. SetterInv' /\ TellerInv'
    BY <1>1, <1>2 DEF LabelInv, SetterInv, TellerInv, Becomes, SettingStates, TellingStates
<1>5. PlaceInv'
    BY <1>1, <1>2 DEF LabelInv, PlaceInv, Becomes
<1>6. ASSUME NEW n \in known' PROVE Excused(n)'
  <2>1. CASE n \in away
    BY <1>1, <1>6, <2>1 DEF Excused
  <2>2. CASE n \notin away
    BY <1>1, <1>2, <1>6, <2>2 DEF Excused, Becomes
  <2> QED
    BY <2>1, <2>2
<1> QED
    BY <1>3, <1>4, <1>5, <1>6 DEF LabelInv, FollowInv

\* What a device that takes a label changes.
LEMMA TakesIs ==
    ASSUME LabelTypeOK, NEW n \in LabelNodes, NEW l \in Seq(STRING), Takes(n, l)
    PROVE  /\ devLabel' \in [LabelNodes -> Seq(STRING)]
           /\ devLabel'[n] = l
           /\ \A m \in LabelNodes : m # n =>
                 /\ devLabel'[m] = devLabel[m]
                 /\ m \in missed' <=> m \in missed
                 /\ m \in overtaken' <=> m \in overtaken
           /\ Normalize(l) # configLabel =>
                 /\ n \in missed' <=> n \in missed
                 /\ n \in overtaken' <=> n \in overtaken \/ Normalize(devLabel[n]) = configLabel
<1>1. devLabel \in [LabelNodes -> Seq(STRING)] /\ devLabel' = [devLabel EXCEPT ![n] = l]
    BY DEF LabelTypeOK, Takes
<1>2. /\ devLabel' \in [LabelNodes -> Seq(STRING)] /\ devLabel'[n] = l
      /\ \A m \in LabelNodes : m # n => devLabel'[m] = devLabel[m]
    BY <1>1
<1>3. /\ missed' = missed \/ missed' = missed \ {n}
      /\ overtaken' = overtaken \/ overtaken' = overtaken \ {n} \/ overtaken' = overtaken \cup {n}
    BY DEF Takes
<1>4. Normalize(l) # configLabel =>
         /\ missed' = missed
         /\ overtaken' = IF Normalize(devLabel[n]) = configLabel THEN overtaken \cup {n} ELSE overtaken
    BY DEF Takes
<1> QED
    BY <1>2, <1>3, <1>4

LEMMA LabelPushTaken ==
    ASSUME LabelInv, NEW c \in LabelConns, NEW n \in LabelNodes, PushTaken(c, n)
    PROVE  LabelInv'
<1>1. /\ UNCHANGED <<owner, fabricLabel, fabricSaved, cachedLabel, configLabel, savedLabel, known, late,
                     split>>
      /\ setting[c].at = "push" /\ n \in setting[c].todo
      /\ Takes(n, setting[c].label)
      /\ setting' = [setting EXCEPT ![c].todo = setting[c].todo \ {n}]
    BY DEF PushTaken
<1>2. /\ setting[c].label \in Seq(STRING) /\ setting[c].todo \ {n} \in SUBSET LabelNodes
      /\ LabelTypeOK
    BY BecomesPart DEF LabelInv
<1>3. Becomes(c, "push", setting[c].label, setting[c].todo \ {n})
    BY <1>1, <1>2, BecomesPart
<1>4. LabelTypeOK'
    BY <1>1, <1>2, <1>3, TakesIs DEF LabelTypeOK, Becomes
<1>5. SetterInv' /\ TellerInv'
    BY <1>1, <1>3 DEF LabelInv, SetterInv, TellerInv, Becomes, SettingStates, TellingStates
<1>6. PlaceInv'
    BY <1>1, <1>3 DEF LabelInv, PlaceInv, Becomes
<1>7. Normalize(setting[c].label) = configLabel
    BY <1>1 DEF LabelInv, PlaceInv
<1>8. ASSUME NEW m \in known, m # n PROVE Excused(m)'
  <2>1. m \in LabelNodes /\ Excused(m)
    BY <1>2 DEF LabelInv, LabelTypeOK, FollowInv
  <2>2. /\ devLabel'[m] = devLabel[m] /\ (m \in missed' <=> m \in missed)
        /\ (m \in overtaken' <=> m \in overtaken)
    BY <1>1, <1>2, <1>8, <2>1, TakesIs
  <2> QED
    BY <1>1, <1>3, <1>8, <2>1, <2>2 DEF Excused, Becomes
<1>9. Excused(n)'
    BY <1>1, <1>2, <1>7, TakesIs DEF Excused
<1>10. FollowInv'
    BY <1>1, <1>8, <1>9 DEF FollowInv
<1> QED
    BY <1>4, <1>5, <1>6, <1>10 DEF LabelInv

LEMMA LabelPushRefused ==
    ASSUME LabelInv, NEW c \in LabelConns, NEW n \in LabelNodes, PushRefused(c, n)
    PROVE  LabelInv'
<1>1. /\ UNCHANGED <<owner, fabricLabel, fabricSaved, cachedLabel, configLabel, savedLabel, devLabel,
                     known, late, overtaken, split>>
      /\ setting[c].at = "push" /\ missed' = missed \cup {n}
      /\ setting' = [setting EXCEPT ![c].todo = setting[c].todo \ {n}]
    BY DEF PushRefused
<1>2. /\ setting[c].label \in Seq(STRING) /\ setting[c].todo \ {n} \in SUBSET LabelNodes
      /\ LabelTypeOK
    BY BecomesPart DEF LabelInv
<1>3. Becomes(c, "push", setting[c].label, setting[c].todo \ {n})
    BY <1>1, <1>2, BecomesPart
<1>4. LabelTypeOK'
    BY <1>1, <1>2, <1>3 DEF LabelTypeOK, Becomes
<1>5. SetterInv' /\ TellerInv'
    BY <1>1, <1>3 DEF LabelInv, SetterInv, TellerInv, Becomes, SettingStates, TellingStates
<1>6. PlaceInv'
    BY <1>1, <1>3 DEF LabelInv, PlaceInv, Becomes
<1>7. ASSUME NEW m \in known PROVE Excused(m)'
  <2>1. Excused(m)
    BY DEF LabelInv, FollowInv
  <2>2. CASE m = n
    BY <1>1, <2>2 DEF Excused
  <2>3. CASE m # n
    BY <1>1, <1>3, <2>1, <2>3 DEF Excused, Becomes
  <2> QED
    BY <2>2, <2>3
<1>8. FollowInv'
    BY <1>1, <1>7 DEF FollowInv
<1> QED
    BY <1>4, <1>5, <1>6, <1>8 DEF LabelInv

LEMMA LabelSetDone ==
    ASSUME LabelInv, NEW c \in LabelConns, SetDone(c)
    PROVE  LabelInv'
<1>1. /\ UNCHANGED <<owner, fabricLabel, fabricSaved, cachedLabel, configLabel, savedLabel, devLabel,
                     known, late, missed, overtaken, split>>
      /\ setting[c].at = "push" /\ setting[c].todo = {} /\ Rests(c)
    BY DEF SetDone, labelHistory
<1>2. Becomes(c, "idle", <<>>, {})
    BY <1>1, BecomesPart DEF LabelInv
<1>3. LabelTypeOK'
    BY <1>1, <1>2 DEF LabelInv, LabelTypeOK, Becomes
<1>4. SetterInv' /\ TellerInv'
    BY <1>1, <1>2 DEF LabelInv, SetterInv, TellerInv, Becomes, SettingStates, TellingStates
<1>5. PlaceInv'
    BY <1>1, <1>2 DEF LabelInv, PlaceInv, Becomes
<1>6. FollowInv'
    BY <1>1, <1>2 DEF LabelInv, FollowInv, Excused, Becomes
<1> QED
    BY <1>3, <1>4, <1>5, <1>6 DEF LabelInv

LEMMA LabelStoreCommissioned ==
    ASSUME LabelInv, NEW c \in LabelConns, NEW n \in LabelNodes, StoreCommissioned(c, n)
    PROVE  LabelInv'
<1>1. /\ UNCHANGED <<owner, fabricLabel, cachedLabel, configLabel, savedLabel, devLabel, late,
                     missed, overtaken, split>>
      /\ setting[c].at = "idle"
      /\ fabricSaved' = fabricLabel /\ known' = known \cup {n}
      /\ setting' = [setting EXCEPT ![c] = [at |-> "read", label |-> <<>>, todo |-> {n}]]
    BY DEF StoreCommissioned, labelHistory
<1>2. Becomes(c, "read", <<>>, {n})
  <2>1. <<>> \in Seq(STRING) /\ {n} \in SUBSET LabelNodes /\ "read" \in TellingStates
    BY DEF TellingStates
  <2> QED
    BY <1>1, <2>1, BecomesIs DEF LabelInv
<1>3. LabelTypeOK'
    BY <1>1, <1>2 DEF LabelInv, LabelTypeOK, Becomes
<1>4. SetterInv' /\ TellerInv'
    BY <1>1, <1>2 DEF LabelInv, SetterInv, TellerInv, Becomes, SettingStates, TellingStates
<1>5. PlaceInv'
    BY <1>1, <1>2 DEF LabelInv, PlaceInv, Becomes
<1>6. Excused(n)'
    BY <1>1, <1>2 DEF Excused, Becomes
<1>7. \A m \in known : Excused(m)'
    BY <1>1, <1>2 DEF LabelInv, FollowInv, Excused, Becomes
<1> QED
    BY <1>1, <1>3, <1>4, <1>5, <1>6, <1>7 DEF LabelInv, FollowInv

LEMMA LabelReadLabel ==
    ASSUME LabelInv, NEW c \in LabelConns, ReadLabel(c)
    PROVE  LabelInv'
<1>1. /\ UNCHANGED <<owner, fabricLabel, fabricSaved, cachedLabel, configLabel, savedLabel, devLabel,
                     known, late, missed, overtaken, split>>
      /\ setting[c].at = "read"
      /\ setting' = [setting EXCEPT ![c].at = "tell", ![c].label = configLabel]
    BY DEF ReadLabel, labelHistory
<1>2. configLabel \in Seq(STRING) /\ Normalize(configLabel) = configLabel
  <2>1. Clean(configLabel) /\ Begins(configLabel)
    BY DEF LabelInv, LabelTypeOK, Clean
  <2> QED
    BY <2>1, NormalCleans DEF Begins
<1>3. Becomes(c, "tell", configLabel, setting[c].todo)
    BY <1>1, <1>2, BecomesPart DEF LabelInv
<1>4. LabelTypeOK'
    BY <1>1, <1>3 DEF LabelInv, LabelTypeOK, Becomes
<1>5. SetterInv' /\ TellerInv'
    BY <1>1, <1>3 DEF LabelInv, SetterInv, TellerInv, Becomes, SettingStates, TellingStates
<1>6. PlaceInv'
    BY <1>1, <1>3 DEF LabelInv, PlaceInv, Becomes
<1>7. FollowInv'
    BY <1>1, <1>2, <1>3 DEF LabelInv, FollowInv, Excused, Becomes
<1> QED
    BY <1>4, <1>5, <1>6, <1>7 DEF LabelInv

LEMMA LabelTells ==
    ASSUME LabelInv, NEW c \in LabelConns, NEW n \in LabelNodes, TellLabel(c, n) \/ TellRefused(c, n)
    PROVE  LabelInv'
<1>1. /\ UNCHANGED <<owner, fabricLabel, fabricSaved, cachedLabel, configLabel, savedLabel, known, late,
                     split>>
      /\ setting[c].at = "tell" /\ n \in setting[c].todo /\ Rests(c)
      /\ \/ Takes(n, setting[c].label)
         \/ missed' = missed \cup {n} /\ UNCHANGED <<devLabel, overtaken>>
    BY DEF TellLabel, TellRefused
<1>2. setting[c].label \in Seq(STRING) /\ LabelTypeOK
    BY BecomesPart DEF LabelInv
<1>3. Becomes(c, "idle", <<>>, {})
    BY <1>1, <1>2, BecomesPart
<1>4. LabelTypeOK'
  <2>1. devLabel' \in [LabelNodes -> Seq(STRING)]
    BY <1>1, <1>2, TakesIs DEF LabelTypeOK
  <2> QED
    BY <1>1, <1>2, <1>3, <2>1 DEF LabelTypeOK, Becomes
<1>5. SetterInv' /\ TellerInv'
    BY <1>1, <1>3 DEF LabelInv, SetterInv, TellerInv, Becomes, SettingStates, TellingStates
<1>6. PlaceInv'
    BY <1>1, <1>3 DEF LabelInv, PlaceInv, Becomes
<1>7. ASSUME NEW m \in known, m # n PROVE Excused(m)'
  <2>1. m \in LabelNodes /\ Excused(m) /\ m \notin setting[c].todo
    BY <1>1, <1>2, <1>7 DEF LabelInv, LabelTypeOK, FollowInv, TellerInv, TellingStates
  <2>2. /\ devLabel'[m] = devLabel[m] /\ (m \in missed => m \in missed')
        /\ (m \in overtaken => m \in overtaken')
    BY <1>1, <1>2, <1>7, <2>1, TakesIs
  <2> QED
    BY <1>1, <1>3, <2>1, <2>2 DEF Excused, Becomes
<1>8. ASSUME n \in known PROVE Excused(n)'
  <2>1. Excused(n)
    BY <1>8 DEF LabelInv, FollowInv
  <2>2. CASE missed' = missed \cup {n}
    BY <2>2 DEF Excused
  <2>3. CASE Takes(n, setting[c].label) /\ Normalize(setting[c].label) = configLabel
    BY <1>1, <1>2, <2>3, TakesIs DEF Excused
  <2>4. CASE Takes(n, setting[c].label) /\ Normalize(setting[c].label) # configLabel
    <3>1. /\ n \in missed' <=> n \in missed
          /\ n \in overtaken' <=> n \in overtaken \/ Normalize(devLabel[n]) = configLabel
      BY <1>2, <2>4, TakesIs
    <3> QED
      BY <1>1, <1>3, <2>1, <2>4, <3>1 DEF Excused, Becomes
  <2> QED
    BY <1>1, <2>2, <2>3, <2>4
<1>9. FollowInv'
    BY <1>1, <1>7, <1>8 DEF FollowInv
<1> QED
    BY <1>4, <1>5, <1>6, <1>9 DEF LabelInv

LEMMA LabelKill ==
    ASSUME LabelInv, Kill
    PROVE  LabelInv'
<1>1. /\ UNCHANGED <<fabricSaved, savedLabel, devLabel, known, overtaken>>
      /\ owner' = Nobody /\ configLabel' = savedLabel
      /\ fabricLabel' = fabricSaved /\ cachedLabel' = fabricSaved
      /\ setting' = [c \in LabelConns |-> Resting] /\ late' = {}
      /\ missed' = (IF split \/ Setters # {} THEN known
                    ELSE missed \cup UNION {setting[c].todo : c \in LabelConns})
      /\ split' = (split \/ Setters # {})
    BY DEF Kill
<1>2. /\ setting' \in [LabelConns -> Settings]
      /\ \A c \in LabelConns : setting'[c].at = "idle"
    BY <1>1 DEF Settings, Resting
<1>3. LabelTypeOK'
    BY <1>1, <1>2 DEF LabelInv, LabelTypeOK
<1>4. SetterInv' /\ TellerInv'
    BY <1>2 DEF SetterInv, TellerInv, SettingStates, TellingStates
<1>5. Setters = {} => \A c \in LabelConns : setting[c].at \notin SettingStates
    BY DEF Setters, SettingStates
<1>6. CASE split \/ Setters # {}
  <2>1. PlaceInv'
    BY <1>1, <1>2, <1>6 DEF PlaceInv
  <2>2. FollowInv'
    BY <1>1, <1>6 DEF FollowInv, Excused
  <2> QED
    BY <1>3, <1>4, <2>1, <2>2 DEF LabelInv
<1>7. CASE ~ split /\ Setters = {}
  <2>1. /\ cachedLabel = fabricLabel /\ fabricSaved = fabricLabel
        /\ configLabel = Normalize(fabricLabel) /\ savedLabel = configLabel
    BY <1>5, <1>7 DEF LabelInv, PlaceInv, SettingStates
  <2>2. PlaceInv'
    BY <1>1, <1>2, <1>7, <2>1 DEF PlaceInv
  <2>3. ASSUME NEW n \in known PROVE Excused(n)'
    <3>1. Excused(n)
      BY DEF LabelInv, FollowInv
    <3>2. \A c \in LabelConns : n \in setting[c].todo => n \in missed'
      BY <1>1, <1>7
    <3>3. n \in missed => n \in missed'
      BY <1>1, <1>7
    <3> QED
      BY <1>1, <1>5, <1>7, <2>1, <3>1, <3>2, <3>3 DEF Excused, SettingStates
  <2> QED
    BY <1>1, <1>3, <1>4, <2>2, <2>3 DEF LabelInv, FollowInv
<1> QED
    BY <1>6, <1>7

-----------------------------------------------------------------------------
(* The label: the theorem.                                                 *)

LEMMA LabelStart ==
    ASSUME LabelInit
    PROVE  LabelInv
<1>1. /\ LabelDefault \in Seq(STRING) /\ Len(LabelDefault) \in 1 .. MaxLabelLen
      /\ ~ IsBlank(LabelDefault[1]) /\ ~ IsBlank(LabelDefault[Len(LabelDefault)])
      /\ FirstNode \in LabelNodes
    BY LabelAssumption
<1>2. Clean(LabelDefault) /\ Normalize(LabelDefault) = LabelDefault
    BY <1>1, NormalCleans DEF Clean, Begins
<1>3. /\ owner = Nobody
      /\ fabricLabel = LabelDefault /\ fabricSaved = LabelDefault /\ cachedLabel = LabelDefault
      /\ configLabel = LabelDefault /\ savedLabel = LabelDefault
      /\ devLabel = [n \in LabelNodes |-> IF n = FirstNode THEN LabelDefault ELSE <<>>]
      /\ known = {FirstNode} /\ late = {} /\ split = FALSE
      /\ setting = [c \in LabelConns |-> Resting]
    BY DEF LabelInit
<1>4. devLabel \in [LabelNodes -> Seq(STRING)] /\ devLabel[FirstNode] = LabelDefault
  <2>1. <<>> \in Seq(STRING)
    OBVIOUS
  <2>2. \A n \in LabelNodes : (IF n = FirstNode THEN LabelDefault ELSE <<>>) \in Seq(STRING)
    BY <1>1, <2>1
  <2>3. devLabel[FirstNode] = LabelDefault
    BY <1>1, <1>3
  <2> QED
    BY <1>3, <2>2, <2>3, Zenon
<1>5. setting \in [LabelConns -> Settings] /\ \A c \in LabelConns : setting[c].at = "idle"
    BY <1>3 DEF Settings, Resting
<1>6. LabelTypeOK
    BY <1>1, <1>2, <1>3, <1>4, <1>5 DEF LabelTypeOK
<1>7. SetterInv /\ TellerInv
    BY <1>5 DEF SetterInv, TellerInv, SettingStates, TellingStates
<1>8. PlaceInv
    BY <1>2, <1>3, <1>5 DEF PlaceInv
<1>9. FollowInv
    BY <1>2, <1>3, <1>4 DEF FollowInv, Excused
<1> QED
    BY <1>6, <1>7, <1>8, <1>9 DEF LabelInv

LEMMA LabelStep ==
    ASSUME LabelInv, [LabelNext]_labelVars
    PROVE  LabelInv'
<1>1. CASE LabelNext
  <2>1. ASSUME NEW c \in LabelConns, SetIgnored(c) PROVE LabelInv'
    <3>1. /\ UNCHANGED <<owner, fabricLabel, fabricSaved, cachedLabel, configLabel, savedLabel,
                         devLabel, known, setting, late, missed, overtaken, split>>
      BY <2>1 DEF SetIgnored, labelHistory
    <3>2. owner \in LabelConns \cup {Nobody}
      BY DEF LabelInv, LabelTypeOK
    <3> QED
      BY <3>1, <3>2, LabelQuiet
  <2>2. ASSUME NEW n \in LabelNodes, MarkNode(n) PROVE LabelInv'
    <3>1. /\ UNCHANGED <<owner, fabricLabel, fabricSaved, cachedLabel, configLabel, savedLabel,
                         devLabel, known, setting, late, missed, overtaken, split>>
      BY <2>2 DEF MarkNode, labelHistory
    <3>2. owner \in LabelConns \cup {Nobody}
      BY DEF LabelInv, LabelTypeOK
    <3> QED
      BY <3>1, <3>2, LabelQuiet
  <2>3. ASSUME NEW c \in LabelConns, Disconnect(c) PROVE LabelInv'
    <3>1. /\ UNCHANGED <<fabricLabel, fabricSaved, cachedLabel, configLabel, savedLabel,
                         devLabel, known, setting, late, missed, overtaken, split>>
          /\ owner = c /\ owner' = Nobody /\ setting[c].at = "idle"
      BY <2>3 DEF Disconnect, Release, labelHistory
    <3>2. \A d \in LabelConns : setting[d].at \in SettingStates => owner' = owner
      BY <3>1 DEF LabelInv, SetterInv, SettingStates
    <3> QED
      BY <3>1, <3>2, LabelQuiet
  <2> QED
    BY <1>1, <2>1, <2>2, <2>3, LabelSetLabel, LabelFabricSet, LabelFabricFails, LabelConfigSet,
       LabelConfigUnsaved, LabelPushSnapshot, LabelSetDone, LabelReadLabel, LabelPushTaken,
       LabelPushRefused, LabelStoreCommissioned, LabelTells, LabelFabricLate, LabelKill
       DEF LabelNext
<1>2. CASE UNCHANGED labelVars
  <2>1. /\ UNCHANGED <<owner, fabricLabel, fabricSaved, cachedLabel, configLabel, savedLabel,
                       devLabel, known, setting, late, missed, overtaken, split>>
    BY <1>2 DEF labelVars, labelHistory
  <2>2. owner \in LabelConns \cup {Nobody}
    BY DEF LabelInv, LabelTypeOK
  <2> QED
    BY <2>1, <2>2, LabelQuiet
<1> QED
    BY <1>1, <1>2

\* There is one label: the connections that set it do not meet, and when none
\* does, the fabric, the cache, the configuration and its file agree on it and
\* every node calls the fabric by it that could be told, whatever blanks a
\* client sends and however sets, commissionings, timeouts, failing saves and
\* kills interleave (api/server_info.rs, api/commissioning.rs).
THEOREM LabelIsOne == LabelSpec => []OneLabel
<1>1. LabelInit => LabelInv
    BY LabelStart
<1>2. LabelInv /\ [LabelNext]_labelVars => LabelInv'
    BY LabelStep
<1>3. ASSUME LabelInv PROVE OneLabel
  <2>1. \A c \in LabelConns : c \in Setters <=> setting[c].at \in SettingStates
    BY DEF Setters, SettingStates
  <2>2. OneSetterAtATime
    <3>1. \A c, d \in Setters : c \in LabelConns /\ d \in LabelConns
      BY DEF Setters
    <3> QED
      BY <1>3, <2>1, <3>1, OwnerSets DEF OneSetterAtATime
  <2>3. PlacesAgree
    <3>1. ASSUME Setters = {}, ~ split
          PROVE  /\ cachedLabel = fabricLabel /\ configLabel = Normalize(fabricLabel)
                 /\ savedLabel = configLabel
      BY <1>3, <2>1, <3>1 DEF LabelInv, PlaceInv, SettingStates
    <3>2. configLabel # <<>>
      <4>1. Len(configLabel) \in 1 .. MaxLabelLen
        BY <1>3 DEF LabelInv, LabelTypeOK, Clean, Begins
      <4> QED
        BY <4>1, EmptySeq
    <3> QED
      BY <3>1, <3>2 DEF PlacesAgree
  <2>4. DevicesFollow
    <3>1. ASSUME Setters = {}, Commissioners = {}, NEW n \in known \ (missed \cup overtaken)
          PROVE  Normalize(devLabel[n]) = configLabel
      <4>1. Excused(n)
        BY <1>3 DEF LabelInv, FollowInv
      <4>2. \A c \in LabelConns : setting[c].at \notin SettingStates \cup TellingStates
        BY <3>1, <2>1 DEF Commissioners, TellingStates
      <4> QED
        BY <4>1, <4>2 DEF Excused, SettingStates, TellingStates
    <3> QED
      BY <3>1 DEF DevicesFollow
  <2> QED
    BY <2>2, <2>3, <2>4 DEF OneLabel
<1> QED
    BY <1>1, <1>2, <1>3, PTL DEF LabelSpec

-----------------------------------------------------------------------------
(* Firmware updates.                                                       *)

ImageRecords ==
    [min : Nat, max : Nat, bytes : Nat, len : Nat, from : {"nobody", "client", "ledger"},
     revoked : BOOLEAN]
LedgerRecords ==
    [valid : BOOLEAN, min : Nat, max : Nat, url : BOOLEAN, sha : BOOLEAN, bytes : Nat, was : BOOLEAN]
SomeVersion == FirmwareVersions \cup {Nothing}
Downloads ==
    [at : {"idle", "told", "reads", "done"}, version : SomeVersion, got : Seq(Nat), replaced : BOOLEAN]
Updates ==
    [at : {"idle", "check", "lookup", "download", "store", "grant", "announce"},
     current : FirmwareVersions \cup {FirstVersion}, wants : SomeVersion, version : SomeVersion,
     bytes : Nat, revoked : SUBSET FirmwareVersions]

FirmwareTypeOK ==
    /\ now \in Nat /\ issuedIds \in Nat /\ bytes \in Nat
    /\ tickets \subseteq [id : Nat, host : Hosts, until : Nat]
    /\ images \in [FirmwareVersions -> ImageRecords]
    /\ ledger \in [FirmwareVersions -> LedgerRecords]
    /\ cached \in [FirmwareVersions \cup {FirstVersion} -> [at : Nat \cup {-1}, version : SomeVersion]]
    /\ update \in Updates
    /\ device \in [runs : FirmwareVersions \cup {FirstVersion}, download : Downloads]

\* An upload id belongs to one reservation, which is gone once it is accepted.
TicketInv ==
    /\ \A t \in tickets : t.id <= issuedIds
    /\ \A t, u \in tickets : t.id = u.id => t = u
    /\ \A r \in redeemed : r.id \in Nat /\ r.id <= issuedIds /\ r.nth = 1 /\ ~ r.late
    /\ \A t \in tickets, r \in redeemed : t.id # r.id

\* The ledger publishes a version before it revokes it.
LedgerInv ==
    \A v \in FirmwareVersions :
        /\ ledger[v].valid => ledger[v].was
        /\ ledger[v].was => ledger[v].bytes \in published

\* What the store has from the ledger is what the ledger publishes, or did.
StoreInv ==
    \A v \in FirmwareVersions :
        images[v].from = "ledger" =>
            ledger[v].was /\ images[v].bytes = ledger[v].bytes /\ ~ images[v].revoked

\* What a request has looked up was published, and not revoked when the request
\* began: what was revoked then is revoked still.
RequestInv ==
    /\ \A v \in update.revoked : v \in FirmwareVersions /\ ledger[v].was /\ ~ ledger[v].valid
    /\ update.at \in {"lookup", "download", "store"} => update.version \in FirmwareVersions
    /\ update.at \in {"download", "store"} =>
          ledger[update.version].was /\ update.version \notin update.revoked
    /\ update.at = "store" => update.bytes = ledger[update.version].bytes

VouchInv == LedgerInv /\ StoreInv /\ RequestInv

\* What a device has read so far is of the image that is there.
WholeInv ==
    /\ DownloadsAreWhole
    /\ device.download.at \in {"reads", "done"} => device.download.version \in FirmwareVersions
    /\ device.download.at = "reads" /\ ~ device.download.replaced =>
          \A i \in 1 .. Len(device.download.got) :
              device.download.got[i] = images[device.download.version].bytes

FirmwareInv == FirmwareTypeOK /\ TicketInv /\ VouchInv /\ WholeInv

LEMMA NewestIs ==
    ASSUME NEW S \in SUBSET FirmwareVersions, S # {}
    PROVE  Newest(S) \in S
<1>1. IsFiniteSet(S) /\ S \in SUBSET Nat
    BY FirmwareAssumption, FS_Subset
<1>2. \E v \in S : \A w \in S : v >= w
    BY <1>1, FiniteHasGreatest
<1> QED
    BY <1>2 DEF Newest

\* A version that is looked for is one there may be an image of, or none.
LEMMA MatchIs ==
    ASSUME FirmwareTypeOK, NEW current \in FirmwareVersions \cup {FirstVersion}
    PROVE  /\ BestMatch(current) \in SomeVersion
           /\ CheckUpdate(current) \in SomeVersion
           /\ Remembered(current) \in [FirmwareVersions \cup {FirstVersion}
                                          -> [at : Nat \cup {-1}, version : SomeVersion]]
<1>1. BestMatch(current) \in SomeVersion
  <2>1. Applicable(current) \in SUBSET FirmwareVersions
    BY DEF Applicable
  <2> QED
    BY <2>1, NewestIs DEF BestMatch, SomeVersion
<1>2. FetchNewest(current) \in SomeVersion
  <2> DEFINE S == {v \in FirmwareVersions : AppliesTo(v, current)}
  <2>1. S \in SUBSET FirmwareVersions
    OBVIOUS
  <2>2. FetchNewest(current) = IF S = {} THEN Nothing ELSE Newest(S)
    BY DEF FetchNewest
  <2> HIDE DEF S
  <2> QED
    BY <2>1, <2>2, NewestIs DEF SomeVersion
<1>3. CheckUpdate(current) \in SomeVersion
    BY <1>2 DEF CheckUpdate, FirmwareTypeOK
<1>4. [at |-> now, version |-> FetchNewest(current)] \in [at : Nat \cup {-1}, version : SomeVersion]
    BY <1>2 DEF FirmwareTypeOK
<1>5. Remembered(current) \in [FirmwareVersions \cup {FirstVersion}
                                  -> [at : Nat \cup {-1}, version : SomeVersion]]
    BY <1>4 DEF Remembered, FirmwareTypeOK
<1> QED
    BY <1>1, <1>3, <1>5

-----------------------------------------------------------------------------
(* Reservations.                                                           *)

LEMMA TicketFrame ==
    ASSUME TicketInv, UNCHANGED <<issuedIds, redeemed>>, tickets' \subseteq tickets
    PROVE  TicketInv'
BY DEF TicketInv

LEMMA TicketStep ==
    ASSUME FirmwareTypeOK, TicketInv, FirmwareNext
    PROVE  TicketInv'
<1>1. ASSUME NEW host \in Hosts, Reserve(host) PROVE TicketInv'
  <2> DEFINE t == [id |-> issuedIds + 1, host |-> host, until |-> now + UploadTtl]
  <2>1. /\ issuedIds' = issuedIds + 1 /\ issuedIds \in Nat /\ redeemed' = redeemed
        /\ tickets' = Live(tickets) \cup {t} /\ Live(tickets) \subseteq tickets
    BY <1>1 DEF Reserve, Live, FirmwareTypeOK
  <2>2. t.id = issuedIds + 1
    OBVIOUS
  <2>3. \A u \in tickets : u.id \in Nat
    BY DEF FirmwareTypeOK
  <2> HIDE DEF t
  <2>4. \A u \in tickets' : u.id <= issuedIds'
    BY <2>1, <2>2, <2>3 DEF TicketInv
  <2>5. \A u, v \in tickets' : u.id = v.id => u = v
    <3>1. \A u \in tickets : u.id # t.id
      BY <2>1, <2>2, <2>3 DEF TicketInv
    <3>2. \A u \in tickets' : u \in tickets \/ u = t
      BY <2>1
    <3> QED
      BY <3>1, <3>2 DEF TicketInv
  <2>6. \A r \in redeemed : r.id # t.id /\ (r.id <= issuedIds => r.id <= issuedIds')
    BY <2>1, <2>2 DEF TicketInv
  <2>7. \A u \in tickets', r \in redeemed : u.id # r.id
    BY <2>1, <2>6 DEF TicketInv
  <2> QED
    BY <2>1, <2>4, <2>5, <2>6, <2>7 DEF TicketInv
<1>2. ASSUME NEW t \in tickets, Redeem(t) PROVE TicketInv'
  <2> DEFINE r == [id |-> t.id, nth |-> Cardinality({x \in redeemed : x.id = t.id}) + 1,
                   late |-> t.until <= now]
  <2>1. /\ t.until > now /\ tickets' = tickets \ {t} /\ issuedIds' = issuedIds
        /\ redeemed' = redeemed \cup {r}
    BY <1>2 DEF Redeem, Consumed
  <2>2. {x \in redeemed : x.id = t.id} = {}
    BY DEF TicketInv
  <2>3. Cardinality({x \in redeemed : x.id = t.id}) + 1 = 1
    BY <2>2, FS_EmptySet
  <2>4. ~ (t.until <= now)
    BY <2>1 DEF FirmwareTypeOK
  <2>5. r.id = t.id /\ t.id \in Nat /\ r.nth = 1 /\ ~ r.late
    BY <2>3, <2>4 DEF FirmwareTypeOK
  <2> HIDE DEF r
  <2> QED
    BY <2>1, <2>5 DEF TicketInv
<1>3. ASSUME NEW t \in tickets, RedeemExpired(t) PROVE TicketInv'
  <2>1. UNCHANGED <<issuedIds, redeemed>> /\ tickets' \subseteq tickets
    BY <1>3 DEF RedeemExpired
  <2> QED
    BY <2>1, TicketFrame
<1>4. CASE FirmwareRestart
  <2>1. UNCHANGED <<issuedIds, redeemed>> /\ tickets' \subseteq tickets
    BY <1>4 DEF FirmwareRestart
  <2> QED
    BY <2>1, TicketFrame
<1>5. ASSUME UNCHANGED <<issuedIds, redeemed, tickets>> PROVE TicketInv'
    BY <1>5, TicketFrame
<1> QED
    BY <1>1, <1>2, <1>3, <1>4, <1>5
       DEF FirmwareNext, UploadRefused, UploadStored, Publish, Revoke, CheckNodeUpdate, UpdateStart,
           UpdateChecks, UpdateLooksUp, UpdateDownloads, UpdateStores, UpdateGrants,
           UpdateGrantUnsaved, UpdateAnnounces, UpdateFails, DeviceQueries, DeviceReads,
           DeviceApplies, FirmwareTick, uploadVars

-----------------------------------------------------------------------------
(* Types, a field at a time.                                               *)

\* A new image takes the place of one, and the device that reads that one.
LEMMA StoredIs ==
    ASSUME FirmwareTypeOK, NEW v \in FirmwareVersions, NEW image \in ImageRecords,
           Stored(v, image), DeviceSees(v)
    PROVE  /\ images' \in [FirmwareVersions -> ImageRecords] /\ images'[v] = image
           /\ \A w \in FirmwareVersions : w # v => images'[w] = images[w]
           /\ device' \in [runs : FirmwareVersions \cup {FirstVersion}, download : Downloads]
           /\ device'.download.at = device.download.at
           /\ device'.download.version = device.download.version
           /\ device'.download.got = device.download.got
           /\ IF device.download.at = "reads" /\ device.download.version = v
              THEN device'.download.replaced
              ELSE device'.download.replaced = device.download.replaced
<1>1. /\ images' \in [FirmwareVersions -> ImageRecords] /\ images'[v] = image
      /\ \A w \in FirmwareVersions : w # v => images'[w] = images[w]
    BY DEF FirmwareTypeOK, Stored
<1>2. device \in [runs : FirmwareVersions \cup {FirstVersion}, download : Downloads]
    BY DEF FirmwareTypeOK
<1>3. CASE Reading(v)
  <2>1. device' = [device EXCEPT !.download.replaced = TRUE]
    BY <1>3 DEF DeviceSees
  <2> QED
    BY <1>1, <1>2, <1>3, <2>1 DEF Downloads, Reading
<1>4. CASE ~ Reading(v)
  <2>1. device' = device
    BY <1>4 DEF DeviceSees
  <2> QED
    BY <1>1, <1>2, <1>4, <2>1 DEF Reading
<1> QED
    BY <1>3, <1>4

\* What is stored, by an upload or by a request, is an image.
LEMMA ImageStored ==
    ASSUME FirmwareTypeOK, VouchInv,
           \/ UpdateStores
           \/ \E u \in uploads, v \in FirmwareVersions, len \in {Blocks, Blocks - 1} :
                 UploadStored(u, v, 0, v, len)
    PROVE  \E v \in FirmwareVersions, image \in ImageRecords : Stored(v, image) /\ DeviceSees(v)
<1>0. FirmwareVersions \subseteq Nat /\ Blocks \in Nat /\ Blocks - 1 \in Nat
    BY FirmwareAssumption
<1>1. ASSUME NEW u \in uploads, NEW v \in FirmwareVersions, NEW len \in {Blocks, Blocks - 1},
             UploadStored(u, v, 0, v, len)
      PROVE  \E w \in FirmwareVersions, image \in ImageRecords : Stored(w, image) /\ DeviceSees(w)
  <2> DEFINE image == [min |-> 0, max |-> v, bytes |-> bytes', len |-> len, from |-> "client",
                       revoked |-> FALSE]
  <2>1. bytes' = bytes + 1 /\ Stored(v, image) /\ DeviceSees(v)
    BY <1>1 DEF UploadStored
  <2>2. bytes' \in Nat /\ len \in Nat
    BY <1>0, <2>1 DEF FirmwareTypeOK
  <2>3. image \in ImageRecords
    BY <1>0, <2>2 DEF ImageRecords
  <2> HIDE DEF image
  <2> QED
    BY <2>1, <2>3
<1>2. CASE UpdateStores
  <2> DEFINE v == update.version
             image == [min |-> ledger[v].min, max |-> ledger[v].max, bytes |-> update.bytes,
                       len |-> Blocks, from |-> "ledger", revoked |-> v \in update.revoked]
  <2>1. Stored(v, image) /\ DeviceSees(v) /\ update.at = "store"
    BY <1>2 DEF UpdateStores
  <2>2. v \in FirmwareVersions /\ update.bytes \in Nat
    BY <2>1 DEF VouchInv, RequestInv, FirmwareTypeOK, Updates
  <2>3. ledger[v].min \in Nat /\ ledger[v].max \in Nat
    BY <2>2 DEF FirmwareTypeOK, LedgerRecords
  <2>4. (v \in update.revoked) \in BOOLEAN
    OBVIOUS
  <2>5. image \in ImageRecords
    BY <1>0, <2>2, <2>3, <2>4 DEF ImageRecords
  <2> HIDE DEF image
  <2> QED
    BY <2>1, <2>2, <2>5
<1> QED
    BY <1>1, <1>2

\* What the device does: it is told, it reads, it is done.
LEMMA DeviceEffect ==
    ASSUME FirmwareTypeOK, WholeInv, DeviceQueries \/ DeviceReads \/ DeviceApplies
    PROVE  /\ device' \in [runs : FirmwareVersions \cup {FirstVersion}, download : Downloads]
           /\ \/ device'.download = NoDownload
              \/ /\ device'.download.at = "reads" /\ device'.download.version \in FirmwareVersions
                 /\ device'.download.got = <<>>
              \/ /\ device.download.at = "reads" /\ device'.download.at = "reads"
                 /\ device'.download.version = device.download.version
                 /\ device'.download.replaced = device.download.replaced
                 /\ device'.download.got = Append(device.download.got,
                                                  images[device.download.version].bytes)
              \/ /\ device.download.at = "reads" /\ device'.download.at = "done"
                 /\ device'.download.version = device.download.version
                 /\ device'.download.got = device.download.got
                 /\ device'.download.replaced = device.download.replaced
<1> DEFINE D == [runs : FirmwareVersions \cup {FirstVersion}, download : Downloads]
<1>1. device \in D /\ device.runs \in FirmwareVersions \cup {FirstVersion} /\ device.download \in Downloads
    BY DEF FirmwareTypeOK
<1>2. NoDownload \in Downloads
    BY EmptySeq DEF NoDownload, Downloads, SomeVersion
<1>3. CASE DeviceQueries
  <2>1. PICK best : best = BestMatch(device.runs)
    OBVIOUS
  <2>2. /\ best \in SomeVersion
        /\ device' = [device EXCEPT !.download =
                        IF best = Nothing THEN NoDownload
                        ELSE [at |-> "reads", version |-> best, got |-> <<>>, replaced |-> FALSE]]
    BY <1>1, <1>3, <2>1, MatchIs DEF DeviceQueries
  <2>3. CASE best = Nothing
    <3>1. device' = [device EXCEPT !.download = NoDownload]
      BY <2>2, <2>3
    <3> QED
      BY <1>1, <1>2, <3>1
  <2>4. CASE best # Nothing
    <3> DEFINE start == [at |-> "reads", version |-> best, got |-> <<>>, replaced |-> FALSE]
    <3>1. device' = [device EXCEPT !.download = start] /\ best \in FirmwareVersions
      BY <2>2, <2>4 DEF SomeVersion
    <3>2. start \in Downloads
      BY <3>1, EmptySeq DEF Downloads, SomeVersion
    <3>3. start.at = "reads" /\ start.version = best /\ start.got = <<>>
      OBVIOUS
    <3> HIDE DEF start
    <3>4. device' \in D /\ device'.download = start
      BY <1>1, <3>1, <3>2
    <3> QED
      BY <3>1, <3>3, <3>4
  <2> QED
    BY <2>3, <2>4
<1>4. CASE DeviceReads
  <2>1. device.download.at = "reads" /\ device.download.version \in FirmwareVersions
    BY <1>4 DEF DeviceReads, WholeInv
  <2>2. PICK image \in ImageRecords : image = images[device.download.version]
    BY <2>1 DEF FirmwareTypeOK
  <2>3. \/ device' = [device EXCEPT !.download.got = Append(@, image.bytes)]
        \/ device' = [device EXCEPT !.download.at = "done"]
    BY <1>4, <2>2 DEF DeviceReads, Named
  <2>4. CASE device' = [device EXCEPT !.download.got = Append(@, image.bytes)]
    <3>1. PICK got \in Seq(Nat) : got = Append(device.download.got, image.bytes)
      <4>1. device.download.got \in Seq(Nat) /\ image.bytes \in Nat
        BY <1>1, <2>2 DEF Downloads, ImageRecords
      <4> QED
        BY <4>1, AppendProperties
    <3>2. device' = [device EXCEPT !.download.got = got]
      BY <2>4, <3>1
    <3>3. device' \in D
      BY <1>1, <3>2 DEF Downloads
    <3>4. /\ device'.download.at = device.download.at /\ device'.download.got = got
          /\ device'.download.version = device.download.version
          /\ device'.download.replaced = device.download.replaced
      BY <1>1, <3>2 DEF Downloads
    <3> QED
      BY <2>1, <2>2, <3>1, <3>3, <3>4
  <2>5. CASE device' = [device EXCEPT !.download.at = "done"]
    BY <1>1, <2>1, <2>5 DEF Downloads
  <2> QED
    BY <2>3, <2>4, <2>5
<1>5. CASE DeviceApplies
  <2>1. device.download.version \in FirmwareVersions
    BY <1>5 DEF DeviceApplies, WholeInv
  <2>2. PICK v \in FirmwareVersions \cup {FirstVersion} :
           device' = [runs |-> v, download |-> NoDownload]
    BY <1>1, <1>5, <2>1 DEF DeviceApplies
  <2> QED
    BY <1>2, <2>2
<1> QED
    BY <1>3, <1>4, <1>5

LEMMA FirmwareTypes ==
    ASSUME FirmwareTypeOK, VouchInv, WholeInv, FirmwareNext
    PROVE  FirmwareTypeOK'
<1>0. /\ FirmwareVersions \subseteq Nat \ {0} /\ UploadTtl \in Nat /\ Blocks \in Nat \ {0}
      /\ FirmwareVersions \cup {FirstVersion} \subseteq Nat
      /\ 0 \in Nat /\ FirstVersion + 1 \in Nat
    BY FirmwareAssumption
<1>1. CASE \/ \E host \in Hosts : Reserve(host)
           \/ \E t \in tickets : Redeem(t) \/ RedeemExpired(t)
           \/ \E u \in uploads : UploadRefused(u)
  <2>1. UNCHANGED <<now, images, bytes, ledger, cached, update, device>>
    BY <1>1 DEF Reserve, Redeem, RedeemExpired, UploadRefused, ledgerVars
  <2>2. issuedIds' \in Nat /\ tickets' \subseteq [id : Nat, host : Hosts, until : Nat]
    <3>1. ASSUME NEW host \in Hosts, Reserve(host)
          PROVE  issuedIds' \in Nat /\ tickets' \subseteq [id : Nat, host : Hosts, until : Nat]
      <4>1. issuedIds + 1 \in Nat /\ now + UploadTtl \in Nat
        BY <1>0 DEF FirmwareTypeOK
      <4>2. [id |-> issuedIds + 1, host |-> host, until |-> now + UploadTtl]
                \in [id : Nat, host : Hosts, until : Nat]
        BY <4>1
      <4> QED
        BY <3>1, <4>1, <4>2 DEF Reserve, Live, FirmwareTypeOK
    <3>2. CASE \/ \E t \in tickets : Redeem(t) \/ RedeemExpired(t)
               \/ \E u \in uploads : UploadRefused(u)
      BY <3>2 DEF Redeem, Consumed, RedeemExpired, UploadRefused, FirmwareTypeOK
    <3> QED
      BY <1>1, <3>1, <3>2
  <2> QED
    BY <2>1, <2>2 DEF FirmwareTypeOK
<1>2. ASSUME NEW u \in uploads, NEW v \in FirmwareVersions, NEW len \in {Blocks, Blocks - 1},
             UploadStored(u, v, 0, v, len)
      PROVE  FirmwareTypeOK'
  <2>1. bytes' = bytes + 1 /\ UNCHANGED <<now, tickets, issuedIds, ledger, cached, update>>
    BY <1>2 DEF UploadStored, ledgerVars
  <2>2. /\ images' \in [FirmwareVersions -> ImageRecords]
        /\ device' \in [runs : FirmwareVersions \cup {FirstVersion}, download : Downloads]
    BY <1>2, ImageStored, StoredIs
  <2> QED
    BY <2>1, <2>2 DEF FirmwareTypeOK
<1>3. ASSUME NEW v \in FirmwareVersions, NEW url \in BOOLEAN, NEW sha \in BOOLEAN, NEW min \in Nat,
             Publish(v, url, sha, min)
      PROVE  FirmwareTypeOK'
  <2>1. /\ bytes' = bytes + 1
        /\ ledger' = [ledger EXCEPT ![v] = [valid |-> TRUE, min |-> min, max |-> v, url |-> url,
                                            sha |-> sha, bytes |-> bytes', was |-> TRUE]]
        /\ UNCHANGED <<now, tickets, issuedIds, images, cached, update, device>>
    BY <1>3 DEF Publish, uploadVars
  <2>2. bytes' \in Nat
    BY <2>1 DEF FirmwareTypeOK
  <2>3. [valid |-> TRUE, min |-> min, max |-> v, url |-> url, sha |-> sha, bytes |-> bytes',
         was |-> TRUE] \in LedgerRecords
    BY <1>0, <2>2 DEF LedgerRecords
  <2>4. ledger' \in [FirmwareVersions -> LedgerRecords]
    BY <2>1, <2>3 DEF FirmwareTypeOK
  <2> QED
    BY <2>1, <2>2, <2>4 DEF FirmwareTypeOK
<1>4. ASSUME NEW v \in FirmwareVersions, Revoke(v)
      PROVE  FirmwareTypeOK'
  <2>1. /\ ledger' = [ledger EXCEPT ![v].valid = FALSE]
        /\ UNCHANGED <<now, tickets, issuedIds, images, bytes, cached, update, device>>
    BY <1>4 DEF Revoke, uploadVars
  <2>2. ledger' \in [FirmwareVersions -> LedgerRecords]
    BY ZenonT(60), <2>1 DEF FirmwareTypeOK, LedgerRecords
  <2> QED
    BY <2>1, <2>2 DEF FirmwareTypeOK
<1>5. ASSUME NEW current \in StoredVersions, CheckNodeUpdate(current)
      PROVE  FirmwareTypeOK'
  <2>1. /\ cached' = Remembered(current)
        /\ UNCHANGED <<now, tickets, issuedIds, images, bytes, ledger, update, device>>
    BY <1>5 DEF CheckNodeUpdate, uploadVars
  <2>2. current \in FirmwareVersions \cup {FirstVersion}
    BY DEF StoredVersions
  <2>3. cached' \in [FirmwareVersions \cup {FirstVersion} -> [at : Nat \cup {-1}, version : SomeVersion]]
    BY <2>1, <2>2, MatchIs
  <2> QED
    BY <2>1, <2>3 DEF FirmwareTypeOK
<1>6. ASSUME NEW current \in StoredVersions, NEW wants \in FirmwareVersions \cup {Nothing},
             UpdateStart(wants, current)
      PROVE  FirmwareTypeOK'
  <2> DEFINE best == BestMatch(current)
             local == best # Nothing /\ wants \in {Nothing, best}
             revoked == {v \in FirmwareVersions : ledger[v].was /\ ~ ledger[v].valid}
  <2>1. /\ update' = [at |-> IF local THEN "grant" ELSE "check", current |-> current,
                      wants |-> wants, version |-> IF local THEN best ELSE Nothing,
                      bytes |-> Nothing, revoked |-> revoked]
        /\ UNCHANGED <<now, tickets, issuedIds, images, bytes, ledger, cached, device>>
    BY <1>6 DEF UpdateStart, uploadVars, ledgerVars
  <2>2. best \in SomeVersion /\ current \in FirmwareVersions \cup {FirstVersion}
    BY MatchIs DEF FirmwareTypeOK, StoredVersions
  <2>3. revoked \in SUBSET FirmwareVersions
    OBVIOUS
  <2> HIDE DEF best, local, revoked
  <2>4. update' \in Updates
    BY <2>1, <2>2, <2>3 DEF Updates, SomeVersion, Nothing
  <2> QED
    BY <2>1, <2>4 DEF FirmwareTypeOK
<1>7. CASE UpdateChecks
  <2>1. /\ UNCHANGED <<now, tickets, issuedIds, images, bytes, ledger, device>>
        /\ \E v \in {update.wants, CheckUpdate(update.current)} : UpdateGoes("lookup", v)
        /\ cached' = cached \/ cached' = Remembered(update.current)
    BY <1>7 DEF UpdateChecks, uploadVars
  <2>2. /\ CheckUpdate(update.current) \in SomeVersion /\ update.wants \in SomeVersion
        /\ cached' \in [FirmwareVersions \cup {FirstVersion}
                           -> [at : Nat \cup {-1}, version : SomeVersion]]
    BY <2>1, MatchIs DEF FirmwareTypeOK, Updates
  <2>3. PICK v \in SomeVersion : update' = [update EXCEPT !.at = "lookup", !.version = v]
    BY <2>1, <2>2 DEF UpdateGoes
  <2>4. update' \in Updates
    BY <2>3 DEF FirmwareTypeOK, Updates
  <2> QED
    BY <2>1, <2>2, <2>4 DEF FirmwareTypeOK
<1>8. CASE \/ UpdateLooksUp \/ \E b \in 1 .. bytes : UpdateDownloads(b)
           \/ UpdateGrants \/ UpdateGrantUnsaved \/ UpdateFails
  <2>1. UNCHANGED <<now, tickets, issuedIds, images, bytes, ledger, cached, device>>
    BY <1>8 DEF UpdateLooksUp, UpdateDownloads, UpdateGrants, UpdateGrantUnsaved, UpdateFails,
                uploadVars, ledgerVars
  <2>2. \/ \E at \in {"download", "announce"} :
              update' = [update EXCEPT !.at = at, !.version = update.version]
        \/ \E b \in Nat : update' = [update EXCEPT !.at = "store", !.bytes = b]
        \/ update' = NoUpdate
    <3>1. ASSUME NEW b \in 1 .. bytes, UpdateDownloads(b)
          PROVE  b \in Nat /\ update' = [update EXCEPT !.at = "store", !.bytes = b]
      BY <3>1 DEF UpdateDownloads, FirmwareTypeOK
    <3>2. CASE UpdateLooksUp
      BY <3>2 DEF UpdateLooksUp, UpdateGoes
    <3>3. CASE UpdateGrants
      BY <3>3 DEF UpdateGrants, UpdateGoes
    <3>4. CASE UpdateGrantUnsaved \/ UpdateFails
      BY <3>4 DEF UpdateGrantUnsaved, UpdateFails
    <3> QED
      BY <1>8, <3>1, <3>2, <3>3, <3>4
  <2>3. update' \in Updates
    <3>1. NoUpdate \in Updates
      BY DEF NoUpdate, Updates, SomeVersion, Nothing
    <3>2. ASSUME NEW at \in {"download", "announce"},
                 update' = [update EXCEPT !.at = at, !.version = update.version]
          PROVE  update' \in Updates
      BY <3>2 DEF FirmwareTypeOK, Updates
    <3>3. ASSUME NEW b \in Nat, update' = [update EXCEPT !.at = "store", !.bytes = b]
          PROVE  update' \in Updates
      BY <3>3 DEF FirmwareTypeOK, Updates
    <3> QED
      BY <2>2, <3>1, <3>2, <3>3
  <2> QED
    BY <2>1, <2>3 DEF FirmwareTypeOK
<1>9. CASE UpdateStores
  <2>1. /\ update' = [update EXCEPT !.at = "grant", !.version = update.version]
        /\ UNCHANGED <<now, tickets, issuedIds, bytes, ledger, cached>>
    BY <1>9 DEF UpdateStores, UpdateGoes, uploadVars, ledgerVars
  <2>2. /\ images' \in [FirmwareVersions -> ImageRecords]
        /\ device' \in [runs : FirmwareVersions \cup {FirstVersion}, download : Downloads]
    BY <1>9, ImageStored, StoredIs
  <2>3. update' \in Updates
    BY <2>1 DEF FirmwareTypeOK, Updates
  <2> QED
    BY <2>1, <2>2, <2>3 DEF FirmwareTypeOK
<1>10. CASE UpdateAnnounces
  <2>1. /\ update' = NoUpdate
        /\ device' = device \/ device' = [device EXCEPT !.download.at = "told"]
        /\ UNCHANGED <<now, tickets, issuedIds, images, bytes, ledger, cached>>
    BY <1>10 DEF UpdateAnnounces, uploadVars, ledgerVars
  <2>2. update' \in Updates
    BY <2>1 DEF NoUpdate, Updates, SomeVersion, Nothing
  <2>3. device' \in [runs : FirmwareVersions \cup {FirstVersion}, download : Downloads]
    <3>1. CASE device' = device
      BY <3>1 DEF FirmwareTypeOK
    <3>2. CASE device' = [device EXCEPT !.download.at = "told"]
      BY <3>2 DEF FirmwareTypeOK, Downloads
    <3> QED
      BY <2>1, <3>1, <3>2
  <2> QED
    BY <2>1, <2>2, <2>3 DEF FirmwareTypeOK
<1>11. CASE DeviceQueries \/ DeviceReads \/ DeviceApplies
  <2>1. UNCHANGED <<now, tickets, issuedIds, images, bytes, ledger, cached, update>>
    BY <1>11 DEF DeviceQueries, DeviceReads, DeviceApplies, uploadVars, ledgerVars
  <2>2. device' \in [runs : FirmwareVersions \cup {FirstVersion}, download : Downloads]
    BY <1>11, DeviceEffect
  <2> QED
    BY <2>1, <2>2 DEF FirmwareTypeOK
<1>12. CASE FirmwareRestart
  <2>1. /\ tickets' = {} /\ images' = [v \in FirmwareVersions |-> NoImage]
        /\ cached' = [v \in DOMAIN cached |-> NoResult]
        /\ update' = NoUpdate /\ device' = [device EXCEPT !.download = NoDownload]
        /\ UNCHANGED <<now, issuedIds, bytes, ledger>>
    BY <1>12 DEF FirmwareRestart
  <2>2. NoImage \in ImageRecords /\ NoUpdate \in Updates /\ NoDownload \in Downloads
    BY EmptySeq DEF NoImage, ImageRecords, NoUpdate, Updates, NoDownload, Downloads, SomeVersion,
                    Nothing
  <2>3. NoResult \in [at : Nat \cup {-1}, version : SomeVersion]
    BY DEF NoResult, SomeVersion
  <2>4. images' \in [FirmwareVersions -> ImageRecords]
    BY <2>1, <2>2
  <2>5. cached' \in [FirmwareVersions \cup {FirstVersion} -> [at : Nat \cup {-1}, version : SomeVersion]]
    BY <2>1, <2>3 DEF FirmwareTypeOK
  <2>6. device' \in [runs : FirmwareVersions \cup {FirstVersion}, download : Downloads]
    BY <2>1, <2>2 DEF FirmwareTypeOK
  <2> QED
    BY <2>1, <2>2, <2>4, <2>5, <2>6 DEF FirmwareTypeOK
<1>13. CASE FirmwareTick
  <2>1. /\ now' = now + 1
        /\ UNCHANGED <<tickets, issuedIds, images, bytes, ledger, cached, update, device>>
    BY <1>13 DEF FirmwareTick, uploadVars, ledgerVars
  <2> QED
    BY <2>1 DEF FirmwareTypeOK
<1>14. ASSUME NEW v \in FirmwareVersions,
              NEW kind \in {"applies", "no url", "no digest", "not yet"},
              Publish(v, kind # "no url", kind # "no digest",
                      IF kind = "not yet" THEN FirstVersion + 1 ELSE 0)
       PROVE  FirmwareTypeOK'
  <2>1. (IF kind = "not yet" THEN FirstVersion + 1 ELSE 0) \in Nat
    BY <1>0, Zenon
  <2>2. (kind # "no url") \in BOOLEAN /\ (kind # "no digest") \in BOOLEAN
    OBVIOUS
  <2> QED
    BY <1>3, <1>14, <2>1, <2>2, Zenon
<1> QED
    BY <1>1, <1>2, <1>4, <1>5, <1>6, <1>7, <1>8, <1>9, <1>10, <1>11, <1>12, <1>13, <1>14, Zenon
       DEF FirmwareNext

-----------------------------------------------------------------------------
(* What the ledger vouches for.                                            *)

\* A version that was published keeps its bytes, and one that was revoked does
\* not become valid again.
Keeps(v) ==
    ledger[v].was => /\ ledger'[v].was /\ ledger'[v].bytes = ledger[v].bytes
                     /\ ~ ledger[v].valid => ~ ledger'[v].valid

LEMMA LedgerStep ==
    ASSUME FirmwareTypeOK, LedgerInv, FirmwareNext
    PROVE  LedgerInv' /\ \A v \in FirmwareVersions : Keeps(v)
<1>1. ASSUME NEW v \in FirmwareVersions, NEW url, NEW sha, NEW min, Publish(v, url, sha, min)
      PROVE  LedgerInv' /\ \A w \in FirmwareVersions : Keeps(w)
  <2> DEFINE record == [valid |-> TRUE, min |-> min, max |-> v, url |-> url, sha |-> sha,
                        bytes |-> bytes', was |-> TRUE]
  <2>1. /\ ~ ledger[v].was /\ ledger' = [ledger EXCEPT ![v] = record]
        /\ published' = published \cup {bytes'}
    BY <1>1 DEF Publish
  <2>2. record.was /\ record.bytes = bytes'
    OBVIOUS
  <2> HIDE DEF record
  <2>3. ledger'[v] = record /\ \A w \in FirmwareVersions : w # v => ledger'[w] = ledger[w]
    BY <2>1 DEF FirmwareTypeOK
  <2> QED
    BY <2>1, <2>2, <2>3 DEF LedgerInv, Keeps
<1>2. ASSUME NEW v \in FirmwareVersions, Revoke(v)
      PROVE  LedgerInv' /\ \A w \in FirmwareVersions : Keeps(w)
  <2>1. /\ ledger[v].valid /\ ledger' = [ledger EXCEPT ![v].valid = FALSE]
        /\ published' = published
    BY <1>2 DEF Revoke
  <2>2. /\ ~ ledger'[v].valid /\ ledger'[v].was = ledger[v].was
        /\ ledger'[v].bytes = ledger[v].bytes
        /\ \A w \in FirmwareVersions : w # v => ledger'[w] = ledger[w]
    BY <2>1 DEF FirmwareTypeOK, LedgerRecords
  <2> QED
    BY <2>1, <2>2 DEF LedgerInv, Keeps
<1>3. ASSUME UNCHANGED <<ledger, published>>
      PROVE  LedgerInv' /\ \A v \in FirmwareVersions : Keeps(v)
    BY <1>3 DEF LedgerInv, Keeps
<1> QED
    BY <1>1, <1>2, <1>3
       DEF FirmwareNext, Reserve, Redeem, RedeemExpired, UploadRefused, UploadStored,
           CheckNodeUpdate, UpdateStart, UpdateChecks, UpdateLooksUp, UpdateDownloads, UpdateStores,
           UpdateGrants, UpdateGrantUnsaved, UpdateAnnounces, UpdateFails, DeviceQueries,
           DeviceReads, DeviceApplies, FirmwareRestart, FirmwareTick, ledgerVars

\* A client's upload is not from the ledger, and what a request stores was
\* looked up.
LEMMA StoreStep ==
    ASSUME FirmwareTypeOK, VouchInv, FirmwareNext
    PROVE  StoreInv'
<1>1. \A v \in FirmwareVersions : Keeps(v)
    BY LedgerStep DEF VouchInv
<1>2. ASSUME \A v \in FirmwareVersions : images'[v] = images[v] \/ images'[v].from # "ledger"
      PROVE  StoreInv'
    BY <1>1, <1>2 DEF VouchInv, StoreInv, Keeps
<1>3. ASSUME NEW u \in uploads, NEW v \in FirmwareVersions, NEW len \in {Blocks, Blocks - 1},
             UploadStored(u, v, 0, v, len)
      PROVE  StoreInv'
  <2> DEFINE image == [min |-> 0, max |-> v, bytes |-> bytes', len |-> len, from |-> "client",
                       revoked |-> FALSE]
  <2>1. images' = [images EXCEPT ![v] = image]
    BY <1>3 DEF UploadStored, Stored
  <2>2. image.from # "ledger"
    OBVIOUS
  <2> HIDE DEF image
  <2>3. images'[v] = image /\ \A w \in FirmwareVersions : w # v => images'[w] = images[w]
    BY <2>1 DEF FirmwareTypeOK
  <2> QED
    BY <1>2, <2>2, <2>3
<1>4. CASE UpdateStores
  <2>1. PICK v \in FirmwareVersions : v = update.version
    BY <1>4 DEF UpdateStores, VouchInv, RequestInv
  <2> DEFINE image == [min |-> ledger[v].min, max |-> ledger[v].max, bytes |-> update.bytes,
                       len |-> Blocks, from |-> "ledger", revoked |-> v \in update.revoked]
  <2>2. images' = [images EXCEPT ![v] = image] /\ ledger' = ledger
    BY <1>4, <2>1 DEF UpdateStores, Stored, ledgerVars
  <2>3. image.bytes = update.bytes /\ image.revoked = (v \in update.revoked)
    OBVIOUS
  <2> HIDE DEF image
  <2>4. images'[v] = image /\ \A w \in FirmwareVersions : w # v => images'[w] = images[w]
    BY <2>2 DEF FirmwareTypeOK
  <2>5. ledger[v].was /\ v \notin update.revoked /\ update.bytes = ledger[v].bytes
    BY <1>4, <2>1 DEF UpdateStores, VouchInv, RequestInv
  <2> QED
    BY <2>2, <2>3, <2>4, <2>5 DEF VouchInv, StoreInv
<1>5. CASE FirmwareRestart
  <2>1. images' = [v \in FirmwareVersions |-> NoImage]
    BY <1>5 DEF FirmwareRestart
  <2>2. NoImage.from # "ledger"
    BY DEF NoImage
  <2> QED
    BY <1>2, <2>1, <2>2
<1>6. CASE images' = images
    BY <1>2, <1>6
<1> QED
    BY <1>3, <1>4, <1>5, <1>6
       DEF FirmwareNext, Reserve, Redeem, RedeemExpired, UploadRefused, Publish, Revoke,
           CheckNodeUpdate, UpdateStart, UpdateChecks, UpdateLooksUp, UpdateDownloads,
           UpdateGrants, UpdateGrantUnsaved, UpdateAnnounces, UpdateFails, DeviceQueries,
           DeviceReads, DeviceApplies, FirmwareTick

\* A request that looks a version up finds it valid: it was not revoked when
\* the request began.
LEMMA RequestStep ==
    ASSUME FirmwareTypeOK, VouchInv, FirmwareNext
    PROVE  RequestInv'
<1>1. \A v \in FirmwareVersions : Keeps(v)
    BY LedgerStep DEF VouchInv
<1>2. update \in Updates /\ update.current \in FirmwareVersions \cup {FirstVersion}
    BY DEF FirmwareTypeOK, Updates
<1>3. CASE update' = update
    BY <1>1, <1>3 DEF VouchInv, RequestInv, Keeps
<1>4. CASE update' = NoUpdate
    BY <1>4 DEF NoUpdate, RequestInv
<1>5. ASSUME NEW current \in StoredVersions, NEW wants \in FirmwareVersions \cup {Nothing},
             UpdateStart(wants, current)
      PROVE  RequestInv'
  <2>1. /\ update'.at \in {"grant", "check"} /\ ledger' = ledger
        /\ update'.revoked = {v \in FirmwareVersions : ledger[v].was /\ ~ ledger[v].valid}
    BY <1>5 DEF UpdateStart, ledgerVars
  <2> QED
    BY <2>1 DEF RequestInv
<1>6. CASE UpdateChecks
  <2>1. PICK v \in FirmwareVersions : update' = [update EXCEPT !.at = "lookup", !.version = v]
    BY <1>2, <1>6, MatchIs DEF UpdateChecks, UpdateGoes, Updates, SomeVersion
  <2>2. ledger' = ledger
    BY <1>6 DEF UpdateChecks
  <2>3. update'.at = "lookup" /\ update'.version = v /\ update'.revoked = update.revoked
    BY <1>2, <2>1 DEF Updates
  <2> QED
    BY <2>2, <2>3 DEF VouchInv, RequestInv
<1>7. CASE UpdateLooksUp
  <2>1. /\ update' = [update EXCEPT !.at = "download", !.version = update.version]
        /\ update.at = "lookup" /\ ledger[update.version].valid /\ ledger' = ledger
    BY <1>7 DEF UpdateLooksUp, UpdateGoes, ImageIsPublished, AppliesTo, ledgerVars
  <2>2. /\ update'.at = "download" /\ update'.version = update.version
        /\ update'.revoked = update.revoked
    BY <1>2, <2>1 DEF Updates
  <2> QED
    BY <2>1, <2>2 DEF VouchInv, RequestInv, LedgerInv
<1>8. ASSUME NEW b \in 1 .. bytes, UpdateDownloads(b)
      PROVE  RequestInv'
  <2>1. /\ update' = [update EXCEPT !.at = "store", !.bytes = b] /\ ledger' = ledger
        /\ update.at = "download" /\ b = ledger[update.version].bytes
    BY <1>8 DEF UpdateDownloads, DigestMatches, ledgerVars
  <2>2. /\ update'.at = "store" /\ update'.version = update.version /\ update'.bytes = b
        /\ update'.revoked = update.revoked
    BY <1>2, <2>1 DEF Updates
  <2> QED
    BY <2>1, <2>2 DEF VouchInv, RequestInv
<1>9. CASE UpdateStores \/ UpdateGrants
  <2>1. /\ \E at \in {"grant", "announce"} :
              update' = [update EXCEPT !.at = at, !.version = update.version]
        /\ ledger' = ledger
    BY <1>9 DEF UpdateStores, UpdateGrants, UpdateGoes, ledgerVars
  <2>2. update'.at \in {"grant", "announce"} /\ update'.revoked = update.revoked
    BY <1>2, <2>1 DEF Updates
  <2> QED
    BY <2>1, <2>2 DEF VouchInv, RequestInv
<1> QED
    BY <1>3, <1>4, <1>5, <1>6, <1>7, <1>8, <1>9
       DEF FirmwareNext, Reserve, Redeem, RedeemExpired, UploadRefused, UploadStored, Publish,
           Revoke, CheckNodeUpdate, UpdateGrantUnsaved, UpdateAnnounces, UpdateFails,
           DeviceQueries, DeviceReads, DeviceApplies, FirmwareRestart, FirmwareTick

-----------------------------------------------------------------------------
(* Downloads.                                                              *)

LEMMA DownloadFrame ==
    ASSUME WholeInv, images' = images,
           \/ device'.download = device.download
           \/ /\ device'.download.at # "reads"
              /\ device'.download.at = "done" => device'.download.version \in FirmwareVersions
              /\ device'.download.got = device.download.got
              /\ device'.download.replaced = device.download.replaced
    PROVE  WholeInv'
<1>1. DownloadsAreWhole'
  <2>1. /\ device'.download.got = device.download.got
        /\ device'.download.replaced = device.download.replaced
    OBVIOUS
  <2> QED
    BY <2>1 DEF WholeInv, DownloadsAreWhole
<1>2. CASE device'.download = device.download
    BY <1>1, <1>2 DEF WholeInv
<1>3. CASE /\ device'.download.at # "reads"
           /\ device'.download.at = "done" => device'.download.version \in FirmwareVersions
    BY <1>1, <1>3 DEF WholeInv
<1> QED
    BY <1>2, <1>3

\* An image that takes the place of the one a device reads tears the download,
\* and any other leaves it alone.
LEMMA StoredWhole ==
    ASSUME FirmwareTypeOK, WholeInv, NEW v \in FirmwareVersions, NEW image \in ImageRecords,
           Stored(v, image), DeviceSees(v)
    PROVE  WholeInv'
<1>1. CASE device.download.at = "reads" /\ device.download.version = v
    BY <1>1, StoredIs DEF WholeInv, DownloadsAreWhole
<1>2. CASE ~ (device.download.at = "reads" /\ device.download.version = v)
    BY <1>2, StoredIs DEF WholeInv, DownloadsAreWhole
<1> QED
    BY <1>1, <1>2

\* No block has been read of a download that is starting, or over.
LEMMA NothingRead ==
    ASSUME \/ device'.download = NoDownload
           \/ /\ device'.download.at = "reads" /\ device'.download.version \in FirmwareVersions
              /\ device'.download.got = <<>>
    PROVE  WholeInv'
<1>1. device'.download.got = <<>>
    BY DEF NoDownload
<1>2. 1 .. Len(device'.download.got) = {}
    BY <1>1
<1>3. device'.download.at \in {"reads", "done"} => device'.download.version \in FirmwareVersions
    BY DEF NoDownload
<1> QED
    BY <1>2, <1>3 DEF WholeInv, DownloadsAreWhole

LEMMA WholeStep ==
    ASSUME FirmwareTypeOK, VouchInv, WholeInv, FirmwareNext
    PROVE  WholeInv'
<1>1. CASE \/ UpdateStores
           \/ \E u \in uploads, v \in FirmwareVersions, len \in {Blocks, Blocks - 1} :
                 UploadStored(u, v, 0, v, len)
    BY <1>1, ImageStored, StoredWhole
<1>2. CASE UpdateAnnounces
  <2>1. /\ images' = images
        /\ \/ device' = device
           \/ /\ device.download.at = "idle"
              /\ device' = [device EXCEPT !.download.at = "told"]
    BY <1>2 DEF UpdateAnnounces
  <2>2. device' = [device EXCEPT !.download.at = "told"] =>
           /\ device'.download.at = "told" /\ device'.download.got = device.download.got
           /\ device'.download.replaced = device.download.replaced
    BY DEF FirmwareTypeOK, Downloads
  <2> QED
    BY <2>1, <2>2, DownloadFrame
<1>3. CASE DeviceQueries \/ DeviceReads \/ DeviceApplies
  <2>1. images' = images
    BY <1>3 DEF DeviceQueries, DeviceReads, DeviceApplies
  <2>2. CASE \/ device'.download = NoDownload
             \/ /\ device'.download.at = "reads" /\ device'.download.version \in FirmwareVersions
                /\ device'.download.got = <<>>
    BY <2>2, NothingRead
  <2>3. CASE /\ device.download.at = "reads" /\ device'.download.at = "reads"
             /\ device'.download.version = device.download.version
             /\ device'.download.replaced = device.download.replaced
             /\ device'.download.got = Append(device.download.got,
                                              images[device.download.version].bytes)
    <3>1. PICK b \in Nat : b = images[device.download.version].bytes
      BY <2>3 DEF WholeInv, FirmwareTypeOK, ImageRecords
    <3>2. PICK got \in Seq(Nat) : got = device.download.got
      BY DEF FirmwareTypeOK, Downloads
    <3>3. /\ Len(Append(got, b)) = Len(got) + 1
          /\ \A i \in 1 .. Len(got) : Append(got, b)[i] = got[i]
          /\ Append(got, b)[Len(got) + 1] = b
      BY AppendProperties
    <3>4. ~ device.download.replaced => \A i \in 1 .. Len(got) : got[i] = b
      BY <2>3, <3>1, <3>2 DEF WholeInv
    <3>5. \A i \in 1 .. Len(got) + 1 : i \in 1 .. Len(got) \/ i = Len(got) + 1
      BY <3>2
    <3>6. ~ device.download.replaced =>
             \A i \in 1 .. Len(device'.download.got) : device'.download.got[i] = b
      BY <2>3, <3>1, <3>2, <3>3, <3>4, <3>5
    <3> QED
      BY <2>1, <2>3, <3>1, <3>6 DEF WholeInv, DownloadsAreWhole
  <2>4. CASE /\ device.download.at = "reads" /\ device'.download.at = "done"
             /\ device'.download.version = device.download.version
             /\ device'.download.got = device.download.got
             /\ device'.download.replaced = device.download.replaced
    <3>1. device.download.version \in FirmwareVersions
      BY <2>4 DEF WholeInv
    <3> QED
      BY <2>1, <2>4, <3>1, DownloadFrame
  <2> QED
    BY <1>3, <2>2, <2>3, <2>4, DeviceEffect
<1>4. CASE FirmwareRestart
  <2>1. device'.download = NoDownload
    BY <1>4 DEF FirmwareRestart, FirmwareTypeOK
  <2> QED
    BY <2>1, NothingRead
<1>5. CASE images' = images /\ device' = device
  <2>1. device'.download = device.download
    BY <1>5
  <2> QED
    BY <1>5, <2>1, DownloadFrame, Zenon
<1> QED
    BY <1>1, <1>2, <1>3, <1>4, <1>5
       DEF FirmwareNext, Reserve, Redeem, RedeemExpired, UploadRefused, Publish, Revoke,
           CheckNodeUpdate, UpdateStart, UpdateChecks, UpdateLooksUp, UpdateDownloads,
           UpdateGrants, UpdateGrantUnsaved, UpdateFails, FirmwareTick

-----------------------------------------------------------------------------
(* Genuine images.                                                         *)

LEMMA FirmwareStart == ASSUME FirmwareInit PROVE FirmwareInv
<1>0. FirmwareVersions \cup {FirstVersion} \subseteq Nat
    BY FirmwareAssumption
<1>1. FirmwareTypeOK
  <2>1. /\ NoImage \in ImageRecords /\ Unpublished \in LedgerRecords /\ NoUpdate \in Updates
        /\ NoDownload \in Downloads /\ NoResult \in [at : Nat \cup {-1}, version : SomeVersion]
    BY EmptySeq DEF NoImage, ImageRecords, Unpublished, LedgerRecords, NoUpdate, Updates,
                    NoDownload, Downloads, NoResult, SomeVersion, Nothing
  <2> QED
    BY <2>1 DEF FirmwareInit, FirmwareTypeOK
<1>2. TicketInv
    BY DEF FirmwareInit, TicketInv
<1>3. VouchInv
    BY DEF FirmwareInit, VouchInv, LedgerInv, StoreInv, RequestInv, Unpublished, NoImage, NoUpdate
<1>4. WholeInv
  <2>1. device.download.at = "idle" /\ device.download.got = <<>>
    BY DEF FirmwareInit, NoDownload
  <2>2. 1 .. Len(device.download.got) = {}
    BY <2>1
  <2> QED
    BY <2>1, <2>2 DEF WholeInv, DownloadsAreWhole
<1> QED
    BY <1>1, <1>2, <1>3, <1>4 DEF FirmwareInv

LEMMA FirmwareStep == ASSUME FirmwareInv, [FirmwareNext]_firmwareVars PROVE FirmwareInv'
<1>1. CASE FirmwareNext
    BY <1>1, FirmwareTypes, TicketStep, LedgerStep, StoreStep, RequestStep, WholeStep
       DEF FirmwareInv, VouchInv
<1>2. CASE UNCHANGED firmwareVars
    BY <1>2 DEF FirmwareInv, firmwareVars, uploadVars, ledgerVars, FirmwareTypeOK, TicketInv,
                VouchInv, LedgerInv, StoreInv, RequestInv, WholeInv, DownloadsAreWhole
<1> QED
    BY <1>1, <1>2

\* For any number of hosts, versions, blocks and requests: an upload id is
\* accepted once and in time, what the store has from the ledger the ledger
\* vouches for, and a download is of one image (api/ota.rs, matter/dcl.rs,
\* matter/ota_provider.rs).
THEOREM ImagesGenuine == FirmwareSpec => []ImagesAreGenuine
<1>1. FirmwareInit => FirmwareInv
    BY FirmwareStart
<1>2. FirmwareInv /\ [FirmwareNext]_firmwareVars => FirmwareInv'
    BY FirmwareStep
<1>3. FirmwareInv => ImagesAreGenuine
    BY DEF FirmwareInv, TicketInv, VouchInv, LedgerInv, StoreInv, WholeInv, ImagesAreGenuine,
           TicketsAreSingleUse, LedgerVouchesForImages
<1> QED
    BY <1>1, <1>2, <1>3, PTL DEF FirmwareSpec
-----------------------------------------------------------------------------
(* The diagnostics of a Thread network.                                    *)

\* What a border router can report of the mesh, and a batch: every node once.
DiagItems == {x \in [mac : MeshNodes \cup {NoMac}, rloc : MeshNodes, stamp : Nat] :
                x.mac = IF x.rloc \in Anonymous THEN NoMac ELSE x.rloc}
RlocsOnce(nodes) == \A i, j \in 1 .. Len(nodes) : nodes[i].rloc = nodes[j].rloc => i = j
NodeLists == {nodes \in Seq(DiagItems) : RlocsOnce(nodes)}

Routes == {"legacy", "collection", "no_diagnostics"}
EarlyStages == {"probe"} \cup Routes
SweepStages == EarlyStages \cup {"discover", "query", "final", "unlist", "store", "done"}
Reasons == {"in_progress", "no_credentials", "rest_protocol", "rest_unreachable", "complete"}
JobRecords == [at : {"absent", "queued", "asking", "reading", "done"}, left : Int,
               stamp : Nat, tries : Nat]
SweepRecords ==
    [at : SweepStages, force : BOOLEAN, source : {"none", "otbr_rest"}, reason : Reasons,
     nodes : NodeLists, jobs : [MeshNodes -> JobRecords], produced : SUBSET DiagItems,
     since : Nat, cleared : BOOLEAN, reused : BOOLEAN]
RouterRecords == [items : Seq(DiagItems), pending : SUBSET MeshNodes, stamp : Nat]

\* Every entry of a list is newer than a measurement.
AllNewer(nodes, stamp) == \A i \in 1 .. Len(nodes) : nodes[i].stamp > stamp

\* A sweep v of a border router r: what was read is listed, nothing is before
\* the router was asked, and what is read after the router dropped its results,
\* or still has to be, is of this sweep.
Covered(v) ==
    \A x \in v.produced : \E i \in 1 .. Len(v.nodes) : v.nodes[i].rloc = x.rloc
Untouched(v) ==
    v.at \in EarlyStages =>
        v.nodes = <<>> /\ ~ v.cleared /\ \A n \in MeshNodes : v.jobs[n].at = "absent"
Dated(v, r) ==
    /\ v.since <= r.stamp
    /\ \A n \in MeshNodes : v.jobs[n].at = "reading" => v.jobs[n].stamp > v.since
    /\ v.cleared => AllNewer(v.nodes, v.since)
    /\ v.cleared /\ v.at \in {"discover", "query", "final"} => AllNewer(r.items, v.since)
SweepOK(v, r) ==
    v \in SweepRecords /\ Covered(v) /\ Untouched(v) /\ Dated(v, r) /\ ~ v.reused

DiagTypeOK ==
    /\ browsing \in BOOLEAN
    /\ capability \in [api : {"unknown", "none"} \cup Routes, old : BOOLEAN, lost : {FALSE}]
    /\ router \in RouterRecords
SweepsInv ==
    /\ sweeps \in Seq(SweepRecords)
    /\ \A c \in 1 .. Len(sweeps) : SweepOK(sweeps[c], router)

\* The one collection that is listed is the one that has not ended.
ListedInv ==
    /\ inFlight \in 0 .. Len(sweeps)
    /\ \A c \in 1 .. Len(sweeps) : inFlight = c <=> sweeps[c].at \notin {"store", "done"}

DiagInv == DiagTypeOK /\ SweepsInv /\ ListedInv

\* The same node is the one of the same RLOC16.
LEMMA SameNodeIs ==
    ASSUME NEW x \in DiagItems, NEW y \in DiagItems
    PROVE  SameNode(x, y) <=> y.rloc = x.rloc
    BY DiagAssumption DEF SameNode, DiagItems

LEMMA ItemIs ==
    ASSUME NEW n \in MeshNodes, NEW stamp \in Nat
    PROVE  Item(n, stamp) \in DiagItems /\ Item(n, stamp).rloc = n /\ Item(n, stamp).stamp = stamp
    BY DEF Item, DiagItems

\* What becomes of a batch when items of pool are handed over: every node stays
\* at its place.
Grown(nodes, pool, new) ==
    /\ new \in NodeLists /\ Len(new) >= Len(nodes)
    /\ \A i \in 1 .. Len(nodes) : new[i].rloc = nodes[i].rloc
    /\ \A i \in 1 .. Len(new) : new[i] \in pool \/ \E k \in 1 .. Len(nodes) : new[i] = nodes[k]

LEMMA GrownAgain ==
    ASSUME NEW a \in NodeLists, NEW b, NEW c, NEW pool, Grown(a, pool, b), Grown(b, pool, c)
    PROVE  Grown(a, pool, c)
<1>1. PICK l \in Nat, m \in Nat, n \in Nat : l = Len(a) /\ m = Len(b) /\ n = Len(c)
  <2>1. a \in Seq(DiagItems) /\ b \in Seq(DiagItems) /\ c \in Seq(DiagItems)
    BY DEF Grown, NodeLists
  <2> QED
    BY <2>1
<1>2. l <= m /\ m <= n
    BY <1>1 DEF Grown
<1>3. \A i \in 1 .. l : i \in 1 .. m /\ c[i].rloc = a[i].rloc
  <2>1. \A i \in 1 .. l : i \in 1 .. m
    BY <1>2
  <2> QED
    BY <1>1, <2>1 DEF Grown
<1>4. ASSUME NEW i \in 1 .. n
      PROVE  c[i] \in pool \/ \E k \in 1 .. l : c[i] = a[k]
  <2>1. c[i] \in pool \/ \E k \in 1 .. m : c[i] = b[k]
    BY <1>1 DEF Grown
  <2>2. \A k \in 1 .. m : b[k] \in pool \/ \E j \in 1 .. l : b[k] = a[j]
    BY <1>1 DEF Grown
  <2> QED
    BY <2>1, <2>2
<1> QED
    BY <1>1, <1>2, <1>3, <1>4 DEF Grown

LEMMA GrownItself ==
    ASSUME NEW a \in NodeLists, NEW pool
    PROVE  Grown(a, pool, a)
<1>1. Len(a) \in Nat
    BY DEF NodeLists
<1> QED
    BY <1>1 DEF Grown

\* Run::add_node: the node has one entry then, which is what was handed over.
LEMMA AddNodeGrows ==
    ASSUME NEW nodes \in NodeLists, NEW x \in DiagItems
    PROVE  /\ Grown(nodes, {x}, AddNode(nodes, x))
           /\ \E i \in 1 .. Len(AddNode(nodes, x)) : AddNode(nodes, x)[i].rloc = x.rloc
<1>0. nodes \in Seq(DiagItems) /\ RlocsOnce(nodes)
    BY DEF NodeLists
<1>1. PICK m \in Nat : m = Len(nodes)
    BY <1>0
<1>2. PICK same : same = {i \in 1 .. m : SameNode(x, nodes[i])}
    OBVIOUS
<1>3. \A i \in 1 .. m : nodes[i] \in DiagItems /\ (i \in same <=> nodes[i].rloc = x.rloc)
  <2>1. \A i \in 1 .. m : nodes[i] \in DiagItems
    BY <1>0, <1>1
  <2> QED
    BY <1>2, <2>1, SameNodeIs
<1>4. PICK new : new = AddNode(nodes, x)
    OBVIOUS
<1>5. CASE same = {}
  <2>1. new = Append(nodes, x)
    BY <1>1, <1>2, <1>4, <1>5 DEF AddNode
  <2>2. /\ new \in Seq(DiagItems) /\ Len(new) = m + 1 /\ new[m + 1] = x
        /\ \A i \in 1 .. m : new[i] = nodes[i]
    BY <1>0, <1>1, <2>1, AppendProperties
  <2>3. \A i \in 1 .. m + 1 : i \in 1 .. m \/ i = m + 1
    OBVIOUS
  <2>4. \A i \in 1 .. m : nodes[i].rloc # x.rloc
    BY <1>3, <1>5
  <2>5. RlocsOnce(new)
    <3>1. \A i, j \in 1 .. m : nodes[i].rloc = nodes[j].rloc => i = j
      BY <1>0, <1>1 DEF RlocsOnce
    <3>2. ASSUME NEW i \in 1 .. m + 1, NEW j \in 1 .. m + 1, new[i].rloc = new[j].rloc
          PROVE  i = j
      <4>1. CASE i \in 1 .. m /\ j \in 1 .. m
        BY <2>2, <3>1, <3>2, <4>1
      <4>2. CASE i = m + 1 \/ j = m + 1
        BY <2>2, <2>3, <2>4, <3>2, <4>2
      <4> QED
        BY <2>3, <4>1, <4>2
    <3> QED
      BY <2>2, <3>2 DEF RlocsOnce
  <2>6. Grown(nodes, {x}, new)
    <3>1. \A i \in 1 .. m + 1 : new[i] \in {x} \/ \E k \in 1 .. m : new[i] = nodes[k]
      BY <2>2, <2>3
    <3> QED
      BY <1>1, <2>2, <2>5, <3>1 DEF Grown, NodeLists
  <2>7. m + 1 \in 1 .. m + 1
    OBVIOUS
  <2> QED
    BY <1>4, <2>2, <2>6, <2>7
<1>6. CASE same # {}
  <2>1. PICK k : k = Min(same)
    OBVIOUS
  <2>2. k \in 1 .. m /\ nodes[k].rloc = x.rloc
    <3>1. same \in SUBSET Nat /\ same \subseteq 1 .. m
      BY <1>2
    <3>2. k \in same
      BY <1>6, <2>1, <3>1, MinIsLeast
    <3> QED
      BY <1>3, <3>1, <3>2
  <2>3. new = [nodes EXCEPT ![k] = x]
    BY <1>1, <1>2, <1>4, <1>6, <2>1 DEF AddNode
  <2>4. /\ new \in Seq(DiagItems) /\ Len(new) = m
        /\ \A i \in 1 .. m : new[i] = IF i = k THEN x ELSE nodes[i]
    BY <1>0, <1>1, <2>2, <2>3, ExceptSeq
  <2>5. \A i \in 1 .. m : new[i].rloc = nodes[i].rloc
    BY <2>2, <2>4
  <2>6. RlocsOnce(new)
    BY <1>0, <1>1, <2>4, <2>5 DEF RlocsOnce
  <2>7. Grown(nodes, {x}, new)
    <3>1. \A i \in 1 .. m : new[i] \in {x} \/ \E l \in 1 .. m : new[i] = nodes[l]
      BY <2>4
    <3> QED
      BY <1>1, <2>4, <2>5, <2>6, <3>1 DEF Grown, NodeLists
  <2> QED
    BY <1>4, <2>2, <2>4, <2>5, <2>7
<1> QED
    BY <1>5, <1>6

\* The items are handed over one after another.
LEMMA AddItemsIsThere ==
    ASSUME NEW nodes, NEW items \in Seq(DiagItems), NEW skipped
    PROVE  /\ AddItems(nodes, items, skipped)[0] = nodes
           /\ \A n \in 1 .. Len(items) :
                 AddItems(nodes, items, skipped)[n] =
                     IF items[n] \in skipped THEN AddItems(nodes, items, skipped)[n - 1]
                     ELSE AddNode(AddItems(nodes, items, skipped)[n - 1], items[n])
<1>1. PICK m \in Nat : m = Len(items)
    OBVIOUS
<1> DEFINE Step(g, i) ==
        IF i = 0 THEN nodes
        ELSE IF items[i] \in skipped THEN g[i - 1]
        ELSE AddNode(g[i - 1], items[i])
    Follows(g, n) == g = [i \in 0 .. n |-> Step(g, i)]
    Missing == {n \in 0 .. m : ~ \E g : Follows(g, n)}
<1>2. Missing = {}
  <2>1. SUFFICES ASSUME Missing # {} PROVE FALSE
    OBVIOUS
  <2>2. Missing \in SUBSET Nat
    OBVIOUS
  <2>3. PICK n \in Missing : \A k \in Missing : n <= k
    <3> HIDE DEF Missing
    <3> QED
      BY <2>1, <2>2, HasLeast
  <2>4. n \in 0 .. m /\ ~ \E g : Follows(g, n)
    OBVIOUS
  <2>5. CASE n = 0
    <3>1. Follows([i \in 0 .. 0 |-> nodes], 0)
      OBVIOUS
    <3> QED
      BY <2>4, <2>5, <3>1
  <2>6. CASE n # 0
    <3>1. n - 1 \in 0 .. m /\ ~ (n <= n - 1)
      BY <2>4, <2>6
    <3>2. PICK g : Follows(g, n - 1)
      BY <2>3, <3>1
    <3>3. PICK h : h = [i \in 0 .. n |-> IF i = n THEN Step(g, n) ELSE g[i]]
      OBVIOUS
    <3>4. ASSUME NEW i \in 0 .. n PROVE h[i] = Step(h, i)
      <4>1. i # 0 => i - 1 \in 0 .. n - 1 /\ i - 1 \in 0 .. n /\ i - 1 # n
        BY <2>4, <2>6
      <4>2. i # 0 => h[i - 1] = g[i - 1]
        BY <3>3, <4>1
      <4>3. Step(h, i) = Step(g, i)
        BY <4>2
      <4>4. h[i] = Step(g, i)
        <5>1. CASE i = n
          BY <3>3, <5>1
        <5>2. CASE i # n
          <6>1. i \in 0 .. n - 1
            BY <2>4, <5>2
          <6>2. g[i] = Step(g, i)
            BY <3>2, <6>1
          <6> QED
            BY <3>3, <5>2, <6>2
        <5> QED
          BY <5>1, <5>2
      <4> QED
        BY <4>3, <4>4
    <3>5. Follows(h, n)
      BY <3>3, <3>4
    <3> QED
      BY <2>4, <3>5
  <2> QED
    BY <2>5, <2>6
<1>3. \E g : Follows(g, m)
  <2> HIDE DEF Follows
  <2>1. m \in 0 .. m
    BY <1>1
  <2> QED
    BY <1>2, <2>1
<1>4. AddItems(nodes, items, skipped) = CHOOSE g : Follows(g, m)
    BY <1>1 DEF AddItems
<1>5. PICK f : f = AddItems(nodes, items, skipped) /\ Follows(f, m)
  <2>1. PICK f : f = CHOOSE g : Follows(g, m)
    OBVIOUS
  <2>2. f = AddItems(nodes, items, skipped)
    BY <1>4, <2>1
  <2>3. Follows(f, m)
    <3> HIDE DEF Follows
    <3> QED
      BY <1>3, <2>1
  <2> QED
    BY <2>2, <2>3
<1>6. \A i \in 0 .. m : f[i] = Step(f, i)
    BY <1>5
<1>7. f[0] = nodes
  <2>1. 0 \in 0 .. m
    OBVIOUS
  <2>2. f[0] = Step(f, 0)
    <3> HIDE DEF Step
    <3> QED
      BY <1>6, <2>1
  <2> QED
    BY <2>2
<1>8. ASSUME NEW n \in 1 .. m
      PROVE  f[n] = IF items[n] \in skipped THEN f[n - 1] ELSE AddNode(f[n - 1], items[n])
  <2>1. n \in 0 .. m /\ n # 0
    OBVIOUS
  <2>2. f[n] = Step(f, n)
    <3> HIDE DEF Step
    <3> QED
      BY <1>6, <2>1
  <2> QED
    BY <2>1, <2>2
<1> QED
    BY <1>1, <1>5, <1>7, <1>8

LEMMA AddItemsGrows ==
    ASSUME NEW nodes \in NodeLists, NEW items \in Seq(DiagItems), NEW skipped
    PROVE  Grown(nodes, {items[i] : i \in 1 .. Len(items)},
                 AddItems(nodes, items, skipped)[Len(items)])
<1>1. PICK m \in Nat : m = Len(items)
    OBVIOUS
<1>2. PICK f : f = AddItems(nodes, items, skipped)
    OBVIOUS
<1>3. /\ f[0] = nodes
      /\ \A n \in 1 .. m : f[n] = IF items[n] \in skipped THEN f[n - 1]
                                  ELSE AddNode(f[n - 1], items[n])
    BY <1>1, <1>2, AddItemsIsThere
<1>4. PICK pool : pool = {items[i] : i \in 1 .. m}
    OBVIOUS
<1> DEFINE Bad == {n \in 0 .. m : ~ Grown(nodes, pool, f[n])}
<1>5. Bad = {}
  <2>1. SUFFICES ASSUME Bad # {} PROVE FALSE
    OBVIOUS
  <2>2. Bad \in SUBSET Nat
    OBVIOUS
  <2>3. PICK n \in Bad : \A k \in Bad : n <= k
    <3> HIDE DEF Bad
    <3> QED
      BY <2>1, <2>2, HasLeast
  <2>4. n \in 0 .. m /\ ~ Grown(nodes, pool, f[n])
    OBVIOUS
  <2>5. CASE n = 0
    BY <1>3, <2>4, <2>5, GrownItself
  <2>6. CASE n # 0
    <3>1. n \in 1 .. m /\ n - 1 \in 0 .. m /\ ~ (n <= n - 1)
      BY <2>4, <2>6
    <3>2. Grown(nodes, pool, f[n - 1])
      BY <2>3, <3>1
    <3>3. PICK g : g = f[n - 1]
      OBVIOUS
    <3>4. g \in NodeLists
      BY <3>2, <3>3 DEF Grown
    <3>5. items[n] \in DiagItems /\ items[n] \in pool
      BY <1>1, <1>4, <3>1
    <3>6. ASSUME NEW h, h = AddNode(g, items[n])
          PROVE  Grown(nodes, pool, h)
      <4>1. Grown(g, {items[n]}, h)
        BY <3>4, <3>5, <3>6, AddNodeGrows
      <4>2. Grown(g, pool, h)
        BY <3>5, <4>1 DEF Grown
      <4> QED
        BY <3>2, <3>3, <4>2, GrownAgain
    <3>7. f[n] = g \/ f[n] = AddNode(g, items[n])
      BY <1>3, <3>1, <3>3
    <3> QED
      BY <2>4, <3>2, <3>3, <3>6, <3>7
  <2> QED
    BY <2>5, <2>6
<1>6. Grown(nodes, pool, f[m])
  <2> HIDE DEF Grown
  <2>1. m \in 0 .. m
    BY <1>1
  <2> QED
    BY <1>5, <2>1
<1> QED
    BY <1>1, <1>2, <1>4, <1>6

\* A set as a sequence is of its elements.
LEMMA SetToSeqIs ==
    ASSUME NEW S, IsFiniteSet(S), NEW T, S \subseteq T
    PROVE  SetToSeq(S) \in Seq(T) /\ \A i \in 1 .. Len(SetToSeq(S)) : SetToSeq(S)[i] \in S
<1>1. PICK n \in Nat : n = Cardinality(S)
    BY FS_CardinalityType
<1>2. \E f \in [1 .. n -> S] : IsInjective(f)
    BY <1>1, FS_CardinalityType DEF ExistsBijection, Bijection, Injection, IsInjective
<1>3. PICK f : f = CHOOSE g \in [1 .. n -> S] : IsInjective(g)
    OBVIOUS
<1>4. f \in [1 .. n -> S]
    BY <1>2, <1>3
<1>5. f = SetToSeq(S)
    BY <1>1, <1>3 DEF SetToSeq
<1>6. f \in [1 .. n -> T]
    BY <1>4
<1>7. f \in Seq(T) /\ Len(f) = n
    BY <1>6
<1> QED
    BY <1>4, <1>5, <1>7

\* What becomes of a border router: its clock goes on, and what it adds to its
\* items is of now.
RouterOn(r, s) ==
    /\ s \in RouterRecords /\ s.stamp >= r.stamp
    /\ \A i \in 1 .. Len(s.items) :
          s.items[i].stamp > r.stamp \/ \E k \in 1 .. Len(r.items) : s.items[i] = r.items[k]

LEMMA RouterRests ==
    ASSUME NEW r \in RouterRecords
    PROVE  RouterOn(r, r)
<1>1. r.stamp \in Nat /\ r.items \in Seq(DiagItems)
    BY DEF RouterRecords
<1> QED
    BY <1>1 DEF RouterOn

LEMMA RouterAdds ==
    ASSUME NEW r \in RouterRecords, NEW n \in MeshNodes, NEW s,
           s.items = Append(r.items, Item(n, r.stamp + 1)), s.stamp = r.stamp + 1,
           s.pending \subseteq MeshNodes,
           s = [items |-> s.items, pending |-> s.pending, stamp |-> s.stamp]
    PROVE  RouterOn(r, s)
<1>1. r.stamp \in Nat /\ r.items \in Seq(DiagItems) /\ r.stamp + 1 \in Nat
    BY DEF RouterRecords
<1>2. PICK m \in Nat : m = Len(r.items)
    BY <1>1
<1>3. PICK x : x = Item(n, r.stamp + 1)
    OBVIOUS
<1>4. x \in DiagItems /\ x.stamp = r.stamp + 1
    BY <1>1, <1>3, ItemIs
<1>5. /\ s.items \in Seq(DiagItems) /\ Len(s.items) = m + 1 /\ s.items[m + 1] = x
      /\ \A i \in 1 .. m : s.items[i] = r.items[i]
    BY <1>1, <1>2, <1>3, <1>4, AppendProperties
<1>6. ASSUME NEW i \in 1 .. m + 1
      PROVE  s.items[i].stamp > r.stamp \/ \E k \in 1 .. m : s.items[i] = r.items[k]
  <2>1. CASE i = m + 1
    BY <1>1, <1>4, <1>5, <2>1
  <2>2. CASE i # m + 1
    <3>1. i \in 1 .. m
      BY <2>2
    <3> QED
      BY <1>5, <3>1
  <2> QED
    BY <2>1, <2>2
<1>7. s \in RouterRecords
    BY <1>1, <1>5 DEF RouterRecords
<1> QED
    BY <1>1, <1>2, <1>5, <1>6, <1>7 DEF RouterOn

\* A sweep stays what it is whatever its router does.
LEMMA RouterGoesOn ==
    ASSUME NEW v, NEW r \in RouterRecords, NEW s, RouterOn(r, s), SweepOK(v, r)
    PROVE  SweepOK(v, s)
<1>1. v \in SweepRecords /\ Covered(v) /\ Untouched(v) /\ Dated(v, r) /\ ~ v.reused
    BY DEF SweepOK
<1>2. v.since \in Nat /\ r.stamp \in Nat /\ s.stamp \in Nat /\ v.since <= s.stamp
    BY <1>1 DEF SweepRecords, RouterRecords, RouterOn, Dated
<1>3. ASSUME v.cleared, v.at \in {"discover", "query", "final"}
      PROVE  AllNewer(s.items, v.since)
  <2>1. \A i \in 1 .. Len(r.items) : r.items[i].stamp > v.since
    BY <1>1, <1>3 DEF Dated, AllNewer
  <2>2. s.items \in Seq(DiagItems)
    BY DEF RouterOn, RouterRecords
  <2>3. ASSUME NEW i \in 1 .. Len(s.items) PROVE s.items[i].stamp > v.since
    <3>1. s.items[i].stamp \in Nat
      BY <2>2 DEF DiagItems
    <3>2. CASE s.items[i].stamp > r.stamp
      BY <1>1, <1>2, <3>1, <3>2 DEF Dated
    <3>3. CASE \E k \in 1 .. Len(r.items) : s.items[i] = r.items[k]
      BY <2>1, <3>3
    <3> QED
      BY <3>2, <3>3 DEF RouterOn
  <2> QED
    BY <2>3 DEF AllNewer
<1>4. Dated(v, s)
    BY <1>1, <1>2, <1>3 DEF Dated
<1> QED
    BY <1>1, <1>4 DEF SweepOK

\* One collection goes a step, and the others are as they were.
Ended == {"store", "done"}

LEMMA SweepTurns ==
    ASSUME DiagInv, NEW c \in 1 .. Len(sweeps), NEW w, SweepTo(c, w),
           RouterOn(router, router'), SweepOK(w, router'), DiagTypeOK',
           \/ inFlight' = inFlight /\ (w.at \in Ended <=> sweeps[c].at \in Ended)
           \/ inFlight' = 0 /\ sweeps[c].at \notin Ended /\ w.at \in Ended
    PROVE  DiagInv'
<1>1. sweeps \in Seq(SweepRecords) /\ w \in SweepRecords
    BY DEF DiagInv, SweepsInv, SweepOK
<1>2. PICK m \in Nat : m = Len(sweeps)
    BY <1>1
<1>3. /\ sweeps' \in Seq(SweepRecords) /\ Len(sweeps') = m
      /\ \A d \in 1 .. m : sweeps'[d] = IF d = c THEN w ELSE sweeps[d]
    BY <1>1, <1>2, ExceptSeq DEF SweepTo
<1>4. router \in RouterRecords
    BY DEF DiagInv, DiagTypeOK
<1>5. ASSUME NEW d \in 1 .. m
      PROVE  SweepOK(sweeps'[d], router')
  <2>1. CASE d = c
    BY <1>3, <2>1
  <2>2. CASE d # c
    <3>1. SweepOK(sweeps[d], router) /\ sweeps'[d] = sweeps[d]
      BY <1>2, <1>3, <2>2 DEF DiagInv, SweepsInv
    <3> QED
      BY <1>4, <3>1, RouterGoesOn
  <2> QED
    BY <2>1, <2>2
<1>6. ListedInv'
  <2>1. /\ inFlight \in 0 .. m
        /\ \A d \in 1 .. m : inFlight = d <=> sweeps[d].at \notin Ended
    BY <1>2 DEF DiagInv, ListedInv, Ended
  <2>2. inFlight' \in 0 .. m /\ \A d \in 1 .. m : inFlight' = d <=> sweeps'[d].at \notin Ended
    <3>1. CASE inFlight' = inFlight /\ (w.at \in Ended <=> sweeps[c].at \in Ended)
      BY <1>2, <1>3, <2>1, <3>1
    <3>2. CASE inFlight' = 0 /\ sweeps[c].at \notin Ended /\ w.at \in Ended
      BY <1>2, <1>3, <2>1, <3>2
    <3> QED
      BY <3>1, <3>2
  <2> QED
    BY <1>3, <2>2 DEF ListedInv, Ended
<1>7. SweepsInv'
    BY <1>3, <1>5 DEF SweepsInv
<1> QED
    BY <1>6, <1>7 DEF DiagInv

\* Run::finish keeps what was swept.
Kept(v, r) ==
    /\ v \in SweepRecords /\ Covered(v) /\ ~ v.reused /\ v.since <= r.stamp
    /\ v.cleared => AllNewer(v.nodes, v.since)

LEMMA FinishedIsOK ==
    ASSUME NEW v, NEW r, Kept(v, r), NEW reason \in Reasons
    PROVE  SweepOK(Finished(v, reason), r) /\ Finished(v, reason).at = "unlist"
<1>1. v \in SweepRecords /\ Covered(v) /\ ~ v.reused
    BY DEF Kept
<1>2. PICK w : w = Finished(v, reason)
    OBVIOUS
<1>3. NoJob \in JobRecords /\ NoJob.at = "absent"
    BY DEF NoJob, JobRecords
<1>4. [n \in MeshNodes |-> NoJob] \in [MeshNodes -> JobRecords]
    BY <1>3
<1>5. /\ w.at = "unlist" /\ w.nodes = v.nodes /\ w.produced = v.produced /\ w.since = v.since
      /\ w.cleared = v.cleared /\ w.reused = v.reused
      /\ w.jobs = [n \in MeshNodes |-> NoJob]
    BY <1>1, <1>2 DEF Finished, SweepRecords
<1>6. w \in SweepRecords
    BY <1>1, <1>2, <1>4 DEF Finished, SweepRecords, SweepStages
<1>7. Covered(w)
    BY <1>1, <1>5 DEF Covered
<1>8. Untouched(w)
    BY <1>5 DEF Untouched, EarlyStages, Routes
<1>9. Dated(w, r)
  <2>1. \A n \in MeshNodes : w.jobs[n].at # "reading"
    BY <1>3, <1>5
  <2> QED
    BY <1>5, <2>1 DEF Dated, Kept
<1> QED
    BY <1>1, <1>2, <1>5, <1>6, <1>7, <1>8, <1>9 DEF SweepOK

\* What was swept after a batch grew.
LEMMA GrownIsKept ==
    ASSUME NEW v \in SweepRecords, NEW r, NEW w \in SweepRecords, NEW pool,
           Covered(v), ~ w.reused, Grown(v.nodes, pool, w.nodes), w.produced = v.produced,
           w.since <= r.stamp,
           w.cleared => AllNewer(v.nodes, w.since) /\ \A x \in pool : x.stamp > w.since
    PROVE  Kept(w, r)
<1>1. Covered(w)
  <2>1. ASSUME NEW x \in w.produced
        PROVE  \E i \in 1 .. Len(w.nodes) : w.nodes[i].rloc = x.rloc
    <3>1. PICK i \in 1 .. Len(v.nodes) : v.nodes[i].rloc = x.rloc
      BY <2>1 DEF Covered
    <3>2. v.nodes \in Seq(DiagItems) /\ w.nodes \in Seq(DiagItems)
      BY DEF SweepRecords, NodeLists
    <3>3. PICK m \in Nat, n \in Nat : m = Len(v.nodes) /\ n = Len(w.nodes)
      BY <3>2
    <3>4. i \in 1 .. n /\ w.nodes[i].rloc = v.nodes[i].rloc
      BY <3>1, <3>3 DEF Grown
    <3> QED
      BY <3>1, <3>3, <3>4
  <2> QED
    BY <2>1 DEF Covered
<1>2. w.cleared => AllNewer(w.nodes, w.since)
    BY DEF Grown, AllNewer
<1> QED
    BY <1>1, <1>2 DEF Kept

\* One that begins, or whose batch is stored.
LEMMA NewIsOK ==
    ASSUME NEW w, NEW r \in RouterRecords, NEW force \in BOOLEAN,
           \/ w = [NewSweep(force) EXCEPT !.since = r.stamp] /\ w.at = "probe"
           \/ w = [NewSweep(force) EXCEPT !.at = "done"] /\ w.at = "done"
    PROVE  SweepOK(w, r)
<1>1. NoJob \in JobRecords /\ NoJob.at = "absent"
    BY DEF NoJob, JobRecords
<1>2. [n \in MeshNodes |-> NoJob] \in [MeshNodes -> JobRecords]
    BY <1>1
<1>3. <<>> \in NodeLists /\ Len(<<>>) = 0
    BY EmptySeq DEF NodeLists, RlocsOnce
<1>4. r.stamp \in Nat
    BY DEF RouterRecords
<1>5. /\ w.nodes = <<>> /\ w.produced = {} /\ w.since \in {0, r.stamp} /\ w.cleared = FALSE
      /\ w.reused = FALSE /\ w.jobs = [n \in MeshNodes |-> NoJob]
    BY DEF NewSweep
<1>6. w \in SweepRecords
  <2>1. PICK jobs \in [MeshNodes -> JobRecords] : jobs = [n \in MeshNodes |-> NoJob]
    BY <1>2
  <2>2. PICK none \in NodeLists : none = <<>>
    BY <1>3
  <2>3. PICK unread \in SUBSET DiagItems : unread = {}
    OBVIOUS
  <2>4. PICK at \in SweepStages, since \in Nat :
           w = [at |-> at, force |-> force, source |-> "none", reason |-> "in_progress",
                nodes |-> none, jobs |-> jobs, produced |-> unread, since |-> since,
                cleared |-> FALSE, reused |-> FALSE]
    <3>1. w.at \in SweepStages /\ w.since \in Nat
      BY <1>4, <1>5 DEF SweepStages, EarlyStages
    <3>2. w = [at |-> w.at, force |-> force, source |-> "none", reason |-> "in_progress",
               nodes |-> none, jobs |-> jobs, produced |-> unread, since |-> w.since,
               cleared |-> FALSE, reused |-> FALSE]
      BY <2>1, <2>2, <2>3 DEF NewSweep
    <3> QED
      BY <3>1, <3>2
  <2>5. [at |-> at, force |-> force, source |-> "none", reason |-> "in_progress",
         nodes |-> none, jobs |-> jobs, produced |-> unread, since |-> since,
         cleared |-> FALSE, reused |-> FALSE] \in SweepRecords
    BY DEF SweepRecords, Reasons
  <2> QED
    BY <2>4, <2>5
<1>7. \A n \in MeshNodes : w.jobs[n].at = "absent"
    BY <1>1, <1>5
<1>8. Covered(w) /\ Untouched(w)
    BY <1>5, <1>7 DEF Covered, Untouched
<1>9. Dated(w, r)
    BY <1>4, <1>5, <1>7 DEF Dated
<1> QED
    BY <1>5, <1>6, <1>8, <1>9 DEF SweepOK

-----------------------------------------------------------------------------
(* The steps of a collection.                                              *)

\* What is known of a collection that goes a step.
LEMMA SweepKnown ==
    ASSUME DiagInv, NEW c \in 1 .. Len(sweeps)
    PROVE  /\ router \in RouterRecords /\ RouterOn(router, router)
           /\ sweeps[c] \in SweepRecords /\ SweepOK(sweeps[c], router)
           /\ Kept(sweeps[c], router)
           /\ inFlight = c <=> sweeps[c].at \notin Ended
<1>1. router \in RouterRecords /\ SweepOK(sweeps[c], router)
    BY DEF DiagInv, DiagTypeOK, SweepsInv
<1>2. sweeps[c] \in SweepRecords /\ Kept(sweeps[c], router)
    BY <1>1 DEF SweepOK, Kept, Dated
<1> QED
    BY <1>1, <1>2, RouterRests DEF DiagInv, ListedInv, Ended

\* A step that leaves the router and the list alone.
LEMMA SweepMoves ==
    ASSUME DiagInv, NEW c \in 1 .. Len(sweeps), NEW w, SweepTo(c, w), SweepOK(w, router),
           UNCHANGED <<browsing, inFlight, capability, router>>,
           w.at \in Ended <=> sweeps[c].at \in Ended
    PROVE  DiagInv'
<1>1. RouterOn(router, router') /\ SweepOK(w, router')
    BY SweepKnown
<1>2. DiagTypeOK'
    BY DEF DiagInv, DiagTypeOK
<1> QED
    BY <1>1, <1>2, SweepTurns

\* A later stage.
LEMMA StageTurns ==
    ASSUME NEW v, NEW r, SweepOK(v, r), NEW at \in SweepStages \ EarlyStages,
           v.cleared /\ at \in {"discover", "query", "final"} => AllNewer(r.items, v.since)
    PROVE  SweepOK([v EXCEPT !.at = at], r) /\ [v EXCEPT !.at = at].at = at
<1>1. v \in SweepRecords /\ Covered(v) /\ Dated(v, r) /\ ~ v.reused
    BY DEF SweepOK
<1>2. PICK w : w = [v EXCEPT !.at = at]
    OBVIOUS
<1>3. /\ w \in SweepRecords /\ w.at = at /\ w.nodes = v.nodes /\ w.produced = v.produced
      /\ w.since = v.since /\ w.cleared = v.cleared /\ w.reused = v.reused /\ w.jobs = v.jobs
    BY <1>1, <1>2 DEF SweepRecords
<1>4. Covered(w) /\ Untouched(w)
    BY <1>1, <1>3 DEF Covered, Untouched
<1>5. Dated(w, r)
    BY <1>1, <1>3 DEF Dated
<1> QED
    BY <1>1, <1>2, <1>3, <1>4, <1>5 DEF SweepOK

\* A job goes on.
LEMMA JobTurns ==
    ASSUME NEW v, NEW r, SweepOK(v, r), v.at \notin EarlyStages, NEW n \in MeshNodes,
           NEW job \in JobRecords, job.at = "reading" => job.stamp > v.since
    PROVE  SweepOK([v EXCEPT !.jobs[n] = job], r) /\ [v EXCEPT !.jobs[n] = job].at = v.at
<1>1. v \in SweepRecords /\ Covered(v) /\ Dated(v, r) /\ ~ v.reused
    BY DEF SweepOK
<1>2. PICK w : w = [v EXCEPT !.jobs[n] = job]
    OBVIOUS
<1>3. PICK jobs : jobs = [v.jobs EXCEPT ![n] = job]
    OBVIOUS
<1>4. jobs \in [MeshNodes -> JobRecords] /\ \A m \in MeshNodes : jobs[m] = IF m = n THEN job ELSE v.jobs[m]
    BY <1>1, <1>3 DEF SweepRecords
<1>5. w = [v EXCEPT !.jobs = jobs]
    BY <1>2, <1>3
<1>6. /\ w \in SweepRecords /\ w.at = v.at /\ w.nodes = v.nodes /\ w.produced = v.produced
      /\ w.since = v.since /\ w.cleared = v.cleared /\ w.reused = v.reused /\ w.jobs = jobs
    BY <1>1, <1>4, <1>5 DEF SweepRecords
<1>7. Covered(w) /\ Untouched(w)
    BY <1>1, <1>6 DEF Covered, Untouched
<1>8. Dated(w, r)
  <2>1. \A m \in MeshNodes : w.jobs[m].at = "reading" => w.jobs[m].stamp > w.since
    BY <1>1, <1>4, <1>6 DEF Dated
  <2> QED
    BY <1>1, <1>6, <2>1 DEF Dated
<1> QED
    BY <1>1, <1>2, <1>6, <1>7, <1>8 DEF SweepOK

\* A collection whose job is at work is past its early stages.
LEMMA AtWorkIsLate ==
    ASSUME NEW v, NEW r, SweepOK(v, r), NEW n \in MeshNodes, v.jobs[n].at # "absent"
    PROVE  v.at \notin EarlyStages
    BY DEF SweepOK, Untouched

\* Which router: one that was found now, or that is remembered.
LEMMA ProbeFinds ==
    ASSUME NEW answers \in ProbeAnswers
    PROVE  ProbeBorderRouters(answers) \in Routes \cup {"none"}
<1>1. answers \in Seq([local : BOOLEAN, node : BOOLEAN, collection : Answered, legacy : Answered])
    BY DiagAssumption
<1>2. PICK asked : asked = {i \in 1 .. Len(answers) : ~ answers[i].local}
    OBVIOUS
<1>3. PICK able : able = {i \in asked : ProbeClient(answers[i]) \in Collecting}
    OBVIOUS
<1>4. able \in SUBSET Nat
    BY <1>1, <1>2, <1>3
<1>5. ProbeBorderRouters(answers) =
        IF able # {} THEN ProbeClient(answers[Min(able)])
        ELSE IF \E i \in asked : ProbeClient(answers[i]) = "no_diagnostics" THEN "no_diagnostics"
        ELSE "none"
    BY <1>2, <1>3 DEF ProbeBorderRouters
<1>6. able # {} => ProbeClient(answers[Min(able)]) \in Collecting
    BY <1>3, <1>4, MinIsLeast
<1> QED
    BY <1>5, <1>6 DEF Routes, Collecting

LEMMA SweepProbes ==
    ASSUME DiagInv, NEW c \in 1 .. Len(sweeps), NEW answers \in ProbeAnswers, Probe(c, answers)
    PROVE  DiagInv'
<1>1. PICK v, api, reused :
        /\ v = sweeps[c] /\ api = ProbedAs(c, answers) /\ reused = Remembers(sweeps[c].force)
        /\ reused \in BOOLEAN
    BY DEF Remembers
<1>2. /\ v.at = "probe"
      /\ capability' = IF reused THEN capability ELSE [NotProbed EXCEPT !.api = api]
      /\ SweepTo(c, IF api = "none" THEN Finished(v, "no_credentials")
                    ELSE [v EXCEPT !.at = api, !.force = FALSE, !.source = "otbr_rest",
                                   !.reused = reused /\ capability.lost])
      /\ UNCHANGED <<browsing, inFlight, batch, router, diagFaults>>
    BY <1>1 DEF Probe
<1>3. /\ router \in RouterRecords /\ RouterOn(router, router) /\ v \in SweepRecords
      /\ SweepOK(v, router) /\ Kept(v, router)
    BY <1>1, SweepKnown
<1>4. capability \in [api : {"unknown", "none"} \cup Routes, old : BOOLEAN, lost : {FALSE}]
    BY DEF DiagInv, DiagTypeOK
<1>5. api \in Routes \cup {"none"}
  <2>1. CASE reused
    BY <1>1, <1>4, <2>1 DEF ProbedAs, Remembers
  <2>2. CASE ~ reused
    BY <1>1, <2>2, ProbeFinds DEF ProbedAs
  <2> QED
    BY <1>1, <2>1, <2>2
<1>6. DiagTypeOK'
  <2>1. capability' \in [api : {"unknown", "none"} \cup Routes, old : BOOLEAN, lost : {FALSE}]
    BY <1>1, <1>2, <1>4, <1>5 DEF NotProbed
  <2> QED
    BY <1>2, <2>1 DEF DiagInv, DiagTypeOK
<1>7. RouterOn(router, router')
    BY <1>2, <1>3
<1>8. CASE api = "none"
  <2>1. PICK w : w = Finished(v, "no_credentials")
    OBVIOUS
  <2>2. SweepOK(w, router') /\ w.at = "unlist"
    BY <1>2, <1>3, <2>1, FinishedIsOK DEF Reasons
  <2> QED
    BY <1>1, <1>2, <1>6, <1>7, <1>8, <2>1, <2>2, SweepTurns DEF Ended
<1>9. CASE api # "none"
  <2>1. PICK w : w = [v EXCEPT !.at = api, !.force = FALSE, !.source = "otbr_rest",
                               !.reused = reused /\ capability.lost]
    OBVIOUS
  <2>2. (reused /\ capability.lost) = FALSE
    BY <1>1, <1>4
  <2>3. w = [v EXCEPT !.at = api, !.force = FALSE, !.source = "otbr_rest", !.reused = FALSE]
    BY <2>1, <2>2
  <2>4. /\ w \in SweepRecords /\ w.at = api /\ w.nodes = v.nodes /\ w.produced = v.produced
        /\ w.since = v.since /\ w.cleared = v.cleared /\ ~ w.reused /\ w.jobs = v.jobs
    BY <1>3, <1>5, <1>9, <2>3 DEF SweepRecords, SweepStages, EarlyStages
  <2>5. Covered(v) /\ Untouched(v) /\ Dated(v, router)
    BY <1>3 DEF SweepOK
  <2>6. api \in Routes
    BY <1>5, <1>9
  <2>7. Covered(w) /\ Untouched(w)
    BY <1>2, <2>4, <2>5 DEF Covered, Untouched, EarlyStages
  <2>8. Dated(w, router)
    BY <2>4, <2>5, <2>6 DEF Dated, Routes
  <2>9. SweepOK(w, router')
    BY <1>2, <2>4, <2>7, <2>8 DEF SweepOK
  <2>10. w.at \notin Ended /\ sweeps[c].at \notin Ended
    BY <1>1, <1>2, <2>4, <2>6 DEF Ended, Routes
  <2>11. SweepTo(c, w)
    BY <1>2, <1>9, <2>1
  <2> QED
    BY <1>2, <1>6, <1>7, <2>9, <2>10, <2>11, SweepTurns
<1> QED
    BY <1>8, <1>9

LEMMA SweepFails ==
    ASSUME DiagInv, NEW c \in 1 .. Len(sweeps),
           (\E why \in {"unreachable", "protocol"} : RequestFails(c, why)) \/ CannotCollect(c)
    PROVE  DiagInv'
<1>1. PICK reason \in Reasons :
        SweepTo(c, Finished(sweeps[c], reason)) /\ UNCHANGED <<browsing, inFlight, batch, router>>
    BY DEF RequestFails, CannotCollect, DiagFails, PartialReason, Reasons
<1>2. sweeps[c].at \notin Ended
    BY DEF RequestFails, CannotCollect, Ended
<1>3. DiagTypeOK'
  <2>1. capability \in [api : {"unknown", "none"} \cup Routes, old : BOOLEAN, lost : {FALSE}]
    BY DEF DiagInv, DiagTypeOK
  <2>2. \/ capability' \in {capability, NotProbed}
        \/ capability' = [capability EXCEPT !.lost = @ \/ FALSE]
    BY DEF RequestFails, CannotCollect, Forgotten
  <2>3. capability' \in [api : {"unknown", "none"} \cup Routes, old : BOOLEAN, lost : {FALSE}]
    <3>1. NotProbed \in [api : {"unknown", "none"} \cup Routes, old : BOOLEAN, lost : {FALSE}]
      BY DEF NotProbed
    <3>2. (capability.lost \/ FALSE) = FALSE
      BY <2>1
    <3>3. [capability EXCEPT !.lost = FALSE]
             \in [api : {"unknown", "none"} \cup Routes, old : BOOLEAN, lost : {FALSE}]
      BY <2>1
    <3>4. [capability EXCEPT !.lost = @ \/ FALSE] = [capability EXCEPT !.lost = FALSE]
      BY <3>2
    <3> QED
      BY <2>1, <2>2, <3>1, <3>3, <3>4
  <2> QED
    BY <1>1, <2>3 DEF DiagInv, DiagTypeOK
<1>4. PICK w : w = Finished(sweeps[c], reason)
    OBVIOUS
<1>5. RouterOn(router, router) /\ SweepOK(w, router) /\ w.at = "unlist"
    BY <1>4, SweepKnown, FinishedIsOK
<1>6. RouterOn(router, router') /\ SweepOK(w, router') /\ w.at \notin Ended
    BY <1>1, <1>5 DEF Ended
<1> QED
    BY <1>1, <1>2, <1>3, <1>4, <1>6, SweepTurns

LEMMA SweepEnds ==
    ASSUME DiagInv, NEW c \in 1 .. Len(sweeps), Unlist(c) \/ StoreBatch(c)
    PROVE  DiagInv'
<1>1. /\ router \in RouterRecords /\ RouterOn(router, router) /\ SweepOK(sweeps[c], router)
      /\ router' = router
    BY SweepKnown DEF Unlist, StoreBatch
<1>2. DiagTypeOK'
    BY DEF DiagInv, DiagTypeOK, Unlist, StoreBatch
<1>3. CASE Unlist(c)
  <2>1. PICK w : w = [sweeps[c] EXCEPT !.at = "store"]
    OBVIOUS
  <2>2. SweepOK(w, router) /\ w.at = "store"
    <3>1. "store" \in SweepStages \ EarlyStages /\ "store" \notin {"discover", "query", "final"}
      BY DEF SweepStages, EarlyStages, Routes
    <3> QED
      BY <1>1, <2>1, <3>1, StageTurns
  <2>3. sweeps[c].at = "unlist" /\ inFlight' = 0 /\ SweepTo(c, w)
    BY <1>3, <2>1 DEF Unlist, FinishInFlight, Goes
  <2>4. sweeps[c].at \notin Ended /\ w.at \in Ended
    BY <2>2, <2>3 DEF Ended
  <2> QED
    BY <1>1, <1>2, <2>2, <2>3, <2>4, SweepTurns
<1>4. CASE StoreBatch(c)
  <2>1. PICK w : w = [NewSweep(FALSE) EXCEPT !.at = "done"]
    OBVIOUS
  <2>2. w.at = "done"
    BY <2>1 DEF NewSweep
  <2>3. SweepOK(w, router)
    BY <1>1, <2>1, <2>2, NewIsOK
  <2>4. sweeps[c].at = "store" /\ inFlight' = inFlight /\ SweepTo(c, w)
    BY <1>4, <2>1 DEF StoreBatch
  <2>5. sweeps[c].at \in Ended /\ w.at \in Ended
    BY <2>2, <2>4 DEF Ended
  <2> QED
    BY <1>1, <1>2, <2>3, <2>4, <2>5, SweepTurns
<1> QED
    BY <1>3, <1>4

LEMMA SweepLegacy ==
    ASSUME DiagInv, NEW c \in 1 .. Len(sweeps), CollectLegacy(c)
    PROVE  DiagInv'
<1>1. PICK v : v = sweeps[c]
    OBVIOUS
<1>2. PICK clock \in Nat : clock = router.stamp + 1
    BY DEF DiagInv, DiagTypeOK, RouterRecords
<1>3. PICK pool : pool = {Item(n, clock) : n \in MeshNodes}
    OBVIOUS
<1>4. PICK items : items = SetToSeq(pool)
    OBVIOUS
<1>5. PICK new : new = AddItems(v.nodes, items, {})[Len(items)]
    OBVIOUS
<1>6. PICK swept : swept = [v EXCEPT !.nodes = new, !.cleared = TRUE]
    OBVIOUS
<1>7. /\ router \in RouterRecords /\ v \in SweepRecords /\ SweepOK(v, router)
    BY <1>1, SweepKnown
<1>8. /\ v.at = "legacy" /\ router' = [router EXCEPT !.stamp = clock]
      /\ UNCHANGED <<browsing, inFlight, capability>>
    BY <1>1, <1>2 DEF CollectLegacy
<1>9. router'.stamp = clock /\ router'.items = router.items /\ router' \in RouterRecords
    BY <1>2, <1>7, <1>8 DEF RouterRecords
<1>10. SweepTo(c, Finished(swept, "complete"))
  <2>1. SetToSeq({Item(n, router'.stamp) : n \in MeshNodes}) = items
    BY <1>3, <1>4, <1>9
  <2>2. [v EXCEPT !.nodes = AddItems(@, items, {})[Len(items)], !.cleared = TRUE] = swept
    BY <1>5, <1>6
  <2> QED
    BY <1>1, <2>1, <2>2 DEF CollectLegacy
<1>11. IsFiniteSet(pool)
  <2>1. PICK f : f = [n \in MeshNodes |-> Item(n, clock)]
    OBVIOUS
  <2>2. f \in Surjection(MeshNodes, pool)
    BY <1>3, <2>1 DEF Surjection
  <2> QED
    BY <2>2, FS_Surjection, DiagAssumption
<1>12. \A x \in pool : x \in DiagItems /\ x.stamp = clock
    BY <1>2, <1>3, ItemIs
<1>13. items \in Seq(DiagItems) /\ \A i \in 1 .. Len(items) : items[i] \in pool
  <2>1. pool \subseteq DiagItems
    BY <1>12
  <2> QED
    BY <1>4, <1>11, <2>1, SetToSeqIs
<1>14. v.nodes = <<>> /\ v.nodes \in NodeLists /\ Len(v.nodes) = 0
    BY <1>7, <1>8, EmptySeq DEF SweepOK, Untouched, EarlyStages, Routes, SweepRecords
<1>15. Grown(v.nodes, {items[i] : i \in 1 .. Len(items)}, new)
    BY <1>5, <1>13, <1>14, AddItemsGrows
<1>16. /\ swept \in SweepRecords /\ swept.nodes = new /\ swept.produced = v.produced
       /\ swept.since = v.since /\ ~ swept.reused
  <2>1. new \in NodeLists
    BY <1>15 DEF Grown
  <2>2. ~ v.reused
    BY <1>7 DEF SweepOK
  <2> QED
    BY <1>6, <1>7, <2>1, <2>2 DEF SweepRecords
<1>17. v.since <= router.stamp /\ v.since \in Nat /\ router.stamp \in Nat
    BY <1>7 DEF SweepOK, Dated, SweepRecords, RouterRecords
<1>18. Kept(swept, router')
  <2>1. swept.since <= router'.stamp
    BY <1>2, <1>9, <1>16, <1>17
  <2>2. AllNewer(v.nodes, swept.since)
    BY <1>14 DEF AllNewer
  <2>3. \A x \in {items[i] : i \in 1 .. Len(items)} : x.stamp > swept.since
    BY <1>2, <1>12, <1>13, <1>16, <1>17
  <2>4. Covered(v)
    BY <1>7 DEF SweepOK
  <2> QED
    BY <1>7, <1>15, <1>16, <2>1, <2>2, <2>3, <2>4, GrownIsKept
<1>19. PICK w : w = Finished(swept, "complete")
    OBVIOUS
<1>20. SweepOK(w, router') /\ w.at = "unlist"
    BY <1>18, <1>19, FinishedIsOK DEF Reasons
<1>21. RouterOn(router, router')
  <2>1. RouterOn(router, router)
    BY <1>7, RouterRests
  <2> QED
    BY <1>2, <1>9, <1>17, <2>1 DEF RouterOn
<1>22. DiagTypeOK'
    BY <1>8, <1>9 DEF DiagInv, DiagTypeOK
<1>23. w.at \notin Ended /\ sweeps[c].at \notin Ended
    BY <1>1, <1>8, <1>20 DEF Ended
<1> QED
    BY <1>8, <1>10, <1>19, <1>20, <1>21, <1>22, <1>23, SweepTurns

LEMMA SweepFinal ==
    ASSUME DiagInv, NEW c \in 1 .. Len(sweeps), FinalPass(c)
    PROVE  DiagInv'
<1>1. PICK v, items : v = sweeps[c] /\ items = router.items
    OBVIOUS
<1>2. PICK new : new = AddItems(v.nodes, items, v.produced)[Len(items)]
    OBVIOUS
<1>3. PICK swept : swept = [v EXCEPT !.nodes = new]
    OBVIOUS
<1>4. router \in RouterRecords /\ v \in SweepRecords /\ SweepOK(v, router)
    BY <1>1, SweepKnown
<1>5. v.at = "final" /\ UNCHANGED <<browsing, inFlight, capability, router>>
    BY <1>1 DEF FinalPass
<1>6. SweepTo(c, Finished(swept, "complete"))
    BY <1>1, <1>2, <1>3 DEF FinalPass
<1>7. items \in Seq(DiagItems) /\ v.nodes \in NodeLists
    BY <1>1, <1>4 DEF RouterRecords, SweepRecords
<1>8. Grown(v.nodes, {items[i] : i \in 1 .. Len(items)}, new)
    BY <1>2, <1>7, AddItemsGrows
<1>9. /\ swept \in SweepRecords /\ swept.nodes = new /\ swept.produced = v.produced
      /\ swept.since = v.since /\ ~ swept.reused /\ swept.cleared = v.cleared
  <2>1. new \in NodeLists
    BY <1>8 DEF Grown
  <2>2. ~ v.reused
    BY <1>4 DEF SweepOK
  <2> QED
    BY <1>3, <1>4, <2>1, <2>2 DEF SweepRecords
<1>10. Covered(v) /\ Dated(v, router)
    BY <1>4 DEF SweepOK
<1>11. ASSUME swept.cleared
       PROVE  /\ AllNewer(v.nodes, swept.since)
              /\ \A x \in {items[i] : i \in 1 .. Len(items)} : x.stamp > swept.since
  <2>1. AllNewer(v.nodes, swept.since) /\ AllNewer(items, swept.since)
    BY <1>1, <1>5, <1>9, <1>10, <1>11 DEF Dated
  <2> QED
    BY <2>1 DEF AllNewer
<1>12. Kept(swept, router)
  <2>1. swept.since <= router.stamp
    BY <1>9, <1>10 DEF Dated
  <2> QED
    BY <1>4, <1>8, <1>9, <1>10, <1>11, <2>1, GrownIsKept
<1>13. PICK w : w = Finished(swept, "complete")
    OBVIOUS
<1>14. SweepOK(w, router) /\ w.at = "unlist"
    BY <1>12, <1>13, FinishedIsOK DEF Reasons
<1>15. w.at \notin Ended /\ sweeps[c].at \notin Ended
    BY <1>1, <1>5, <1>14 DEF Ended
<1> QED
    BY <1>5, <1>6, <1>13, <1>14, <1>15, SweepMoves

LEMMA SweepClears ==
    ASSUME DiagInv, NEW c \in 1 .. Len(sweeps), ClearDiagnostics(c)
    PROVE  DiagInv'
<1>1. PICK v : v = sweeps[c]
    OBVIOUS
<1>2. PICK none : none = <<>>
    OBVIOUS
<1>3. PICK w : w = [v EXCEPT !.at = "discover", !.cleared = TRUE]
    OBVIOUS
<1>4. router \in RouterRecords /\ v \in SweepRecords /\ SweepOK(v, router)
    BY <1>1, SweepKnown
<1>5. /\ v.at = "collection" /\ router' = [router EXCEPT !.items = none] /\ SweepTo(c, w)
      /\ UNCHANGED <<browsing, inFlight, capability>>
    BY <1>1, <1>2, <1>3 DEF ClearDiagnostics, ClearedItems
<1>6. none \in Seq(DiagItems) /\ Len(none) = 0
    BY <1>2, EmptySeq
<1>7. router'.stamp = router.stamp /\ router'.items = none /\ router' \in RouterRecords
    BY <1>4, <1>5, <1>6 DEF RouterRecords
<1>8. RouterOn(router, router')
  <2>1. router.stamp \in Nat
    BY <1>4 DEF RouterRecords
  <2> QED
    BY <1>6, <1>7, <2>1 DEF RouterOn
<1>9. /\ w \in SweepRecords /\ w.at = "discover" /\ w.nodes = v.nodes /\ w.produced = v.produced
      /\ w.since = v.since /\ ~ w.reused /\ w.jobs = v.jobs
  <2>1. ~ v.reused
    BY <1>4 DEF SweepOK
  <2> QED
    BY <1>3, <1>4, <2>1 DEF SweepRecords, SweepStages
<1>10. Covered(v) /\ Untouched(v) /\ Dated(v, router)
    BY <1>4 DEF SweepOK
<1>11. Covered(w) /\ Untouched(w)
    BY <1>9, <1>10 DEF Covered, Untouched, EarlyStages, Routes
<1>12. Dated(w, router')
  <2>1. v.nodes = none /\ \A n \in MeshNodes : v.jobs[n].at = "absent"
    BY <1>2, <1>5, <1>10 DEF Untouched, EarlyStages, Routes
  <2>2. AllNewer(w.nodes, w.since) /\ AllNewer(router'.items, w.since)
    BY <1>6, <1>7, <1>9, <2>1 DEF AllNewer
  <2>3. w.since <= router'.stamp
    BY <1>7, <1>9, <1>10 DEF Dated
  <2> QED
    BY <1>9, <2>1, <2>2, <2>3 DEF Dated
<1>13. SweepOK(w, router')
    BY <1>9, <1>11, <1>12 DEF SweepOK
<1>14. DiagTypeOK'
    BY <1>5, <1>7 DEF DiagInv, DiagTypeOK
<1>15. w.at \notin Ended /\ sweeps[c].at \notin Ended
    BY <1>1, <1>5, <1>9 DEF Ended
<1> QED
    BY <1>5, <1>8, <1>13, <1>14, <1>15, SweepTurns

LEMMA SweepGoesOn ==
    ASSUME DiagInv, NEW c \in 1 .. Len(sweeps), ClearRefused(c) \/ Join(c)
    PROVE  DiagInv'
<1>1. PICK v, at : v = sweeps[c] /\ at = IF v.at = "collection" THEN "discover" ELSE "final"
    OBVIOUS
<1>2. SweepOK(v, router)
    BY <1>1, SweepKnown
<1>3. PICK w : w = [v EXCEPT !.at = at]
    OBVIOUS
<1>4. /\ v.at \in {"collection", "query"} /\ SweepTo(c, w)
      /\ UNCHANGED <<browsing, inFlight, capability, router>>
    BY <1>1, <1>3 DEF ClearRefused, Join, Goes
<1>5. v.cleared => AllNewer(router.items, v.since)
    BY <1>2, <1>4 DEF SweepOK, Untouched, EarlyStages, Routes, Dated
<1>6. at \in SweepStages \ EarlyStages /\ at \notin Ended
    BY <1>1 DEF SweepStages, EarlyStages, Routes, Ended
<1>7. SweepOK(w, router) /\ w.at = at
    BY <1>2, <1>3, <1>5, <1>6, StageTurns
<1>8. sweeps[c].at \notin Ended
    BY <1>1, <1>4 DEF Ended
<1> QED
    BY <1>4, <1>6, <1>7, <1>8, SweepMoves

LEMMA SweepDiscovers ==
    ASSUME DiagInv, NEW c \in 1 .. Len(sweeps), NEW listed \in SUBSET MeshNodes, Discover(c, listed)
    PROVE  DiagInv'
<1>1. PICK v, jobs :
        v = sweeps[c] /\ jobs = [n \in MeshNodes |->
                                    IF n \in listed THEN [NoJob EXCEPT !.at = "queued"] ELSE NoJob]
    OBVIOUS
<1>2. SweepOK(v, router) /\ v \in SweepRecords
    BY <1>1, SweepKnown
<1>3. PICK w : w = [v EXCEPT !.at = "query", !.jobs = jobs]
    OBVIOUS
<1>4. /\ v.at = "discover" /\ SweepTo(c, w)
      /\ UNCHANGED <<browsing, inFlight, capability, router>>
    BY <1>1, <1>3 DEF Discover
<1>5. /\ NoJob \in JobRecords /\ [NoJob EXCEPT !.at = "queued"] \in JobRecords
      /\ NoJob.at # "reading" /\ [NoJob EXCEPT !.at = "queued"].at # "reading"
    BY DEF NoJob, JobRecords
<1>6. jobs \in [MeshNodes -> JobRecords] /\ \A n \in MeshNodes : jobs[n].at # "reading"
    BY <1>1, <1>5
<1>7. /\ w \in SweepRecords /\ w.at = "query" /\ w.nodes = v.nodes /\ w.produced = v.produced
      /\ w.since = v.since /\ w.cleared = v.cleared /\ w.reused = v.reused /\ w.jobs = jobs
    BY <1>2, <1>3, <1>6 DEF SweepRecords, SweepStages
<1>8. Covered(v) /\ Dated(v, router) /\ ~ v.reused
    BY <1>2 DEF SweepOK
<1>9. Covered(w) /\ Untouched(w)
    BY <1>7, <1>8 DEF Covered, Untouched, EarlyStages, Routes
<1>10. Dated(w, router)
    BY <1>4, <1>6, <1>7, <1>8 DEF Dated
<1>11. SweepOK(w, router)
    BY <1>7, <1>8, <1>9, <1>10 DEF SweepOK
<1>12. w.at \notin Ended /\ sweeps[c].at \notin Ended
    BY <1>1, <1>4, <1>7 DEF Ended
<1> QED
    BY <1>4, <1>11, <1>12, SweepMoves

\* A job that neither completes nor is read.
LEMMA JobMoves ==
    ASSUME DiagInv, NEW c \in 1 .. Len(sweeps), NEW n \in MeshNodes, NEW job \in JobRecords,
           job.at # "reading", sweeps[c].jobs[n].at # "absent", JobTo(c, n, job),
           RouterOn(router, router'), router' \in RouterRecords,
           UNCHANGED <<browsing, inFlight, capability>>
    PROVE  DiagInv'
<1>1. PICK v : v = sweeps[c]
    OBVIOUS
<1>2. SweepOK(v, router) /\ router \in RouterRecords
    BY <1>1, SweepKnown
<1>3. SweepOK(v, router')
    BY <1>2, RouterGoesOn
<1>4. v.at \notin EarlyStages
    BY <1>1, <1>2, AtWorkIsLate
<1>5. PICK w : w = [v EXCEPT !.jobs[n] = job]
    OBVIOUS
<1>6. SweepOK(w, router') /\ w.at = v.at
    BY <1>3, <1>4, <1>5, JobTurns
<1>7. SweepTo(c, w)
    BY <1>1, <1>5 DEF JobTo
<1>8. DiagTypeOK'
    BY DEF DiagInv, DiagTypeOK
<1> QED
    BY <1>1, <1>6, <1>7, <1>8, SweepTurns

LEMMA SweepAsks ==
    ASSUME DiagInv, NEW c \in 1 .. Len(sweeps), NEW n \in MeshNodes,
           \/ TakeJob(c, n) \/ TaskEmpty(c, n) \/ ReadFails(c, n)
           \/ \E pends \in BOOLEAN : TaskEnds(c, n, pends)
    PROVE  DiagInv'
<1>1. sweeps[c].jobs[n] \in JobRecords /\ router \in RouterRecords /\ RouterOn(router, router)
  <2>1. sweeps[c] \in SweepRecords
    BY SweepKnown
  <2> QED
    BY <2>1, SweepKnown DEF SweepRecords
<1>2. PICK old \in JobRecords : old = sweeps[c].jobs[n]
    BY <1>1
<1>3. AttemptsPerNode \in Nat
    BY DiagAssumption
<1>4. [NoJob EXCEPT !.at = "done"] \in JobRecords /\ [NoJob EXCEPT !.at = "done"].at # "reading"
    BY DEF NoJob, JobRecords
<1>5. CASE TakeJob(c, n)
  <2>1. PICK job : job = [NoJob EXCEPT !.at = "asking", !.left = AttemptsPerNode]
    OBVIOUS
  <2>2. job \in JobRecords /\ job.at # "reading"
    <3>1. job = [at |-> "asking", left |-> AttemptsPerNode, stamp |-> 0, tries |-> 0]
      BY <2>1 DEF NoJob
    <3>2. AttemptsPerNode \in Int
      BY <1>3
    <3> QED
      BY <3>1, <3>2 DEF JobRecords
  <2>3. /\ JobTo(c, n, job) /\ sweeps[c].jobs[n].at # "absent"
        /\ UNCHANGED <<browsing, inFlight, capability, router>>
    BY <1>5, <2>1 DEF TakeJob
  <2>4. RouterOn(router, router') /\ router' \in RouterRecords
    BY <1>1, <2>3
  <2> QED
    BY <2>2, <2>3, <2>4, JobMoves
<1>6. CASE TaskEmpty(c, n) \/ ReadFails(c, n)
  <2>1. PICK job : job = [NoJob EXCEPT !.at = "done"]
    OBVIOUS
  <2>2. /\ JobTo(c, n, job) /\ sweeps[c].jobs[n].at # "absent"
        /\ UNCHANGED <<browsing, inFlight, capability, router>>
    BY <1>6, <2>1 DEF TaskEmpty, ReadFails
  <2>3. RouterOn(router, router') /\ router' \in RouterRecords
    BY <1>1, <2>2
  <2> QED
    BY <1>4, <2>1, <2>2, <2>3, JobMoves
<1>7. ASSUME NEW pends \in BOOLEAN, TaskEnds(c, n, pends)
      PROVE  DiagInv'
  <2>1. PICK left : left = AttemptsLeft(old.left)
    OBVIOUS
  <2>2. PICK job : job = IF left = 0 THEN [NoJob EXCEPT !.at = "done"]
                         ELSE [old EXCEPT !.left = left, !.tries = @ + 1]
    OBVIOUS
  <2>3. /\ JobTo(c, n, job) /\ old.at = "asking"
        /\ router' = IF pends THEN [router EXCEPT !.pending = @ \cup {n}] ELSE router
        /\ UNCHANGED <<browsing, inFlight, capability>>
    BY <1>2, <1>7, <2>1, <2>2 DEF TaskEnds
  <2>4. left \in Int
    BY <2>1 DEF JobRecords, AttemptsLeft
  <2>5. job \in JobRecords /\ job.at # "reading"
    <3>1. [old EXCEPT !.left = left, !.tries = @ + 1] \in JobRecords
      <4>1. old.tries + 1 \in Nat
        BY DEF JobRecords
      <4> QED
        BY <2>4, <4>1 DEF JobRecords
    <3>2. [old EXCEPT !.left = left, !.tries = @ + 1].at = "asking"
      BY <2>3 DEF JobRecords
    <3> QED
      BY <1>4, <2>2, <3>1, <3>2
  <2>6. /\ router'.items = router.items /\ router'.stamp = router.stamp
        /\ router' \in RouterRecords
    BY <1>1, <2>3 DEF RouterRecords
  <2>7. RouterOn(router, router')
    BY <1>1, <2>6 DEF RouterOn
  <2> QED
    BY <1>2, <2>3, <2>5, <2>6, <2>7, JobMoves
<1> QED
    BY <1>5, <1>6, <1>7

LEMMA SweepCompletes ==
    ASSUME DiagInv, NEW c \in 1 .. Len(sweeps), NEW n \in MeshNodes, TaskCompletes(c, n)
    PROVE  DiagInv'
<1>1. PICK v : v = sweeps[c]
    OBVIOUS
<1>2. SweepOK(v, router) /\ v \in SweepRecords /\ router \in RouterRecords
    BY <1>1, SweepKnown
<1>3. PICK old \in JobRecords : old = v.jobs[n]
    BY <1>2 DEF SweepRecords
<1>4. PICK clock \in Nat : clock = router.stamp + 1
    BY <1>2 DEF RouterRecords
<1>5. PICK items : items = Append(router.items, Item(n, clock))
    OBVIOUS
<1>6. PICK job : job = [old EXCEPT !.at = "reading", !.stamp = clock]
    OBVIOUS
<1>7. /\ old.at = "asking" /\ router' = [router EXCEPT !.stamp = clock, !.items = items]
      /\ UNCHANGED <<browsing, inFlight, capability>>
    BY <1>1, <1>3, <1>4, <1>5 DEF TaskCompletes
<1>8. /\ router'.stamp = clock /\ router'.items = items /\ router'.pending = router.pending
      /\ router' = [items |-> router'.items, pending |-> router'.pending, stamp |-> router'.stamp]
      /\ router'.pending \subseteq MeshNodes
    BY <1>2, <1>7 DEF RouterRecords
<1>9. RouterOn(router, router')
    BY <1>2, <1>4, <1>5, <1>8, RouterAdds
<1>10. JobTo(c, n, job)
    BY <1>1, <1>3, <1>6, <1>8 DEF TaskCompletes
<1>11. job \in JobRecords /\ job.at = "reading" /\ job.stamp = clock
    BY <1>6 DEF JobRecords
<1>12. clock > v.since
  <2>1. v.since <= router.stamp /\ v.since \in Nat /\ router.stamp \in Nat
    BY <1>2 DEF SweepOK, Dated, SweepRecords, RouterRecords
  <2> QED
    BY <1>4, <2>1
<1>13. v.at \notin EarlyStages
    BY <1>2, <1>3, <1>7, AtWorkIsLate
<1>14. SweepOK(v, router')
    BY <1>2, <1>9, RouterGoesOn
<1>15. PICK w : w = [v EXCEPT !.jobs[n] = job]
    OBVIOUS
<1>16. SweepOK(w, router') /\ w.at = v.at
    BY <1>11, <1>12, <1>13, <1>14, <1>15, JobTurns
<1>17. SweepTo(c, w)
    BY <1>1, <1>10, <1>15 DEF JobTo
<1>18. DiagTypeOK'
    BY <1>7, <1>9 DEF DiagInv, DiagTypeOK, RouterOn
<1> QED
    BY <1>1, <1>7, <1>9, <1>16, <1>17, <1>18, SweepTurns

LEMMA SweepReads ==
    ASSUME DiagInv, NEW c \in 1 .. Len(sweeps), NEW n \in MeshNodes, ReadItem(c, n)
    PROVE  DiagInv'
<1>1. PICK v : v = sweeps[c]
    OBVIOUS
<1>2. SweepOK(v, router) /\ v \in SweepRecords /\ router \in RouterRecords
    BY <1>1, SweepKnown
<1>3. PICK old \in JobRecords : old = v.jobs[n]
    BY <1>2 DEF SweepRecords
<1>4. PICK x : x = Item(n, old.stamp)
    OBVIOUS
<1>5. PICK new, produced : new = AddNode(v.nodes, x) /\ produced = v.produced \cup {x}
    OBVIOUS
<1>6. PICK job : job = [old EXCEPT !.at = "done"]
    OBVIOUS
<1>7. PICK jobs : jobs = [v.jobs EXCEPT ![n] = job]
    OBVIOUS
<1>8. PICK w : w = [v EXCEPT !.jobs = jobs, !.produced = produced, !.nodes = new]
    OBVIOUS
<1>9. old.at = "reading" /\ UNCHANGED <<browsing, inFlight, capability, router>>
    BY <1>1, <1>3 DEF ReadItem
<1>10. SweepTo(c, w)
  <2>1. SweepTo(c, [v EXCEPT !.jobs[n].at = "done", !.produced = @ \cup {x},
                             !.nodes = AddNode(@, x)])
    BY <1>1, <1>3, <1>4 DEF ReadItem
  <2>2. [v EXCEPT !.jobs[n].at = "done", !.produced = @ \cup {x}, !.nodes = AddNode(@, x)] = w
    BY <1>2, <1>3, <1>5, <1>6, <1>7, <1>8
  <2> QED
    BY <2>1, <2>2
<1>11. Covered(v) /\ Dated(v, router) /\ ~ v.reused /\ v.at \notin EarlyStages
    BY <1>2, <1>3, <1>9, AtWorkIsLate DEF SweepOK
<1>12. old.stamp \in Nat /\ v.nodes \in NodeLists /\ v.produced \in SUBSET DiagItems /\ v.since \in Nat
    BY <1>2 DEF JobRecords, SweepRecords
<1>13. x \in DiagItems /\ x.stamp = old.stamp
    BY <1>4, <1>12, ItemIs
<1>14. /\ Grown(v.nodes, {x}, new)
       /\ \E i \in 1 .. Len(new) : new[i].rloc = x.rloc
    BY <1>5, <1>12, <1>13, AddNodeGrows
<1>15. job \in JobRecords /\ job.at = "done"
    BY <1>6 DEF JobRecords
<1>16. jobs \in [MeshNodes -> JobRecords] /\ \A m \in MeshNodes : jobs[m] = IF m = n THEN job ELSE v.jobs[m]
    BY <1>2, <1>7, <1>15 DEF SweepRecords
<1>17. /\ w \in SweepRecords /\ w.at = v.at /\ w.nodes = new /\ w.produced = produced
       /\ w.since = v.since /\ w.cleared = v.cleared /\ w.reused = v.reused /\ w.jobs = jobs
  <2>1. new \in NodeLists /\ produced \in SUBSET DiagItems
    BY <1>5, <1>12, <1>13, <1>14 DEF Grown
  <2> QED
    BY <1>2, <1>8, <1>16, <2>1 DEF SweepRecords
<1>18. \A m \in MeshNodes : w.jobs[m].at = "reading" => w.jobs[m].stamp > w.since
    BY <1>11, <1>15, <1>16, <1>17 DEF Dated
<1>19. v.cleared => AllNewer(new, v.since)
  <2>1. x.stamp > v.since
    BY <1>3, <1>9, <1>11, <1>13 DEF Dated
  <2>2. v.cleared => AllNewer(v.nodes, v.since)
    BY <1>11 DEF Dated
  <2> QED
    BY <1>14, <2>1, <2>2 DEF Grown, AllNewer
<1>20. Covered(w)
  <2>1. ASSUME NEW y \in v.produced
        PROVE  \E i \in 1 .. Len(new) : new[i].rloc = y.rloc
    <3>1. PICK i \in 1 .. Len(v.nodes) : v.nodes[i].rloc = y.rloc
      BY <1>11, <2>1 DEF Covered
    <3>2. v.nodes \in Seq(DiagItems) /\ new \in Seq(DiagItems)
      BY <1>12, <1>14 DEF Grown, NodeLists
    <3>3. PICK l \in Nat, m \in Nat : l = Len(v.nodes) /\ m = Len(new)
      BY <3>2
    <3>4. i \in 1 .. m /\ new[i].rloc = v.nodes[i].rloc
      BY <1>14, <3>1, <3>3 DEF Grown
    <3> QED
      BY <3>1, <3>3, <3>4
  <2> QED
    BY <1>5, <1>14, <1>17, <2>1 DEF Covered
<1>21. Untouched(w) /\ Dated(w, router)
    BY <1>11, <1>17, <1>18, <1>19 DEF Untouched, Dated
<1>22. SweepOK(w, router)
    BY <1>11, <1>17, <1>20, <1>21 DEF SweepOK
<1> QED
    BY <1>1, <1>9, <1>10, <1>17, <1>22, SweepMoves

-----------------------------------------------------------------------------
(* What is no step of a collection, and the theorem.                       *)

LEMMA SweepsRest ==
    ASSUME DiagInv, UNCHANGED <<sweeps, inFlight>>, DiagTypeOK', RouterOn(router, router')
    PROVE  DiagInv'
<1>1. router \in RouterRecords
    BY DEF DiagInv, DiagTypeOK
<1>2. \A c \in 1 .. Len(sweeps) : SweepOK(sweeps[c], router')
    BY <1>1, RouterGoesOn DEF DiagInv, SweepsInv
<1>3. SweepsInv' /\ ListedInv'
    BY <1>2 DEF DiagInv, SweepsInv, ListedInv
<1> QED
    BY <1>3 DEF DiagInv

\* ThreadDiagnosticsCache::collection: what begins is listed alone.
LEMMA SweepStarts ==
    ASSUME DiagInv, NEW force \in BOOLEAN, Started(force), browsing' \in BOOLEAN,
           UNCHANGED <<capability, router>>
    PROVE  DiagInv'
<1>1. DiagTypeOK' /\ router \in RouterRecords
    BY DEF DiagInv, DiagTypeOK
<1>2. RouterOn(router, router')
    BY <1>1, RouterRests
<1>3. CASE Joins(force)
    BY <1>1, <1>2, <1>3, SweepsRest DEF Started
<1>4. CASE ~ Joins(force)
  <2>1. PICK w : w = [NewSweep(force) EXCEPT !.since = router.stamp]
    OBVIOUS
  <2>2. w.at = "probe"
    BY <2>1 DEF NewSweep
  <2>3. SweepOK(w, router)
    BY <1>1, <2>1, <2>2, NewIsOK
  <2>4. sweeps \in Seq(SweepRecords) /\ w \in SweepRecords
    BY <2>3 DEF DiagInv, SweepsInv, SweepOK
  <2>5. PICK m \in Nat : m = Len(sweeps)
    BY <2>4
  <2>6. inFlight = 0 /\ inFlight' = m + 1 /\ sweeps' = Append(sweeps, w)
    BY <1>4, <2>1, <2>5 DEF Started, Joins
  <2>7. /\ sweeps' \in Seq(SweepRecords) /\ Len(sweeps') = m + 1 /\ sweeps'[m + 1] = w
        /\ \A c \in 1 .. m : sweeps'[c] = sweeps[c]
    BY <2>4, <2>5, <2>6, AppendProperties
  <2>8. \A c \in 1 .. m + 1 : c \in 1 .. m \/ c = m + 1
    OBVIOUS
  <2>9. \A c \in 1 .. m : SweepOK(sweeps[c], router) /\ sweeps[c].at \in Ended
    BY <2>5, <2>6 DEF DiagInv, SweepsInv, ListedInv, Ended
  <2>10. SweepsInv'
    BY <2>3, <2>7, <2>8, <2>9 DEF SweepsInv
  <2>11. w.at \notin Ended
    BY <2>2 DEF Ended
  <2>12. \A c \in 1 .. m + 1 : m + 1 = c <=> sweeps'[c].at \notin Ended
    BY <2>5, <2>7, <2>8, <2>9, <2>11
  <2>13. ListedInv'
    BY <2>5, <2>6, <2>7, <2>12 DEF ListedInv, Ended
  <2> QED
    BY <1>1, <2>10, <2>13 DEF DiagInv
<1> QED
    BY <1>3, <1>4

LEMMA TaskComesLate ==
    ASSUME DiagInv, NEW n \in MeshNodes, LateTask(n)
    PROVE  DiagInv'
<1>1. router \in RouterRecords
    BY DEF DiagInv, DiagTypeOK
<1>2. RouterOn(router, router')
  <2>1. CASE router' = [router EXCEPT !.pending = @ \ {n}]
    <3>1. router' \in RouterRecords /\ router'.items = router.items /\ router'.stamp = router.stamp
      BY <1>1, <2>1 DEF RouterRecords
    <3> QED
      BY <1>1, <3>1, RouterRests DEF RouterOn
  <2>2. CASE router' = [router EXCEPT !.pending = @ \ {n}, !.stamp = @ + 1,
                                      !.items = Append(@, Item(n, router.stamp + 1))]
    <3>1. /\ router'.items = Append(router.items, Item(n, router.stamp + 1))
          /\ router'.stamp = router.stamp + 1 /\ router'.pending = router.pending \ {n}
          /\ router' = [items |-> router'.items, pending |-> router'.pending,
                        stamp |-> router'.stamp]
      BY <1>1, <2>2 DEF RouterRecords
    <3>2. router'.pending \subseteq MeshNodes
      BY <1>1, <3>1 DEF RouterRecords
    <3> QED
      BY <1>1, <3>1, <3>2, RouterAdds
  <2> QED
    BY <2>1, <2>2 DEF LateTask
<1>3. DiagTypeOK'
    BY <1>2 DEF DiagInv, DiagTypeOK, LateTask, RouterOn
<1> QED
    BY <1>2, <1>3, SweepsRest DEF LateTask

LEMMA SweepStep ==
    ASSUME DiagInv, NEW c \in 1 .. Len(sweeps), Sweep(c)
    PROVE  DiagInv'
<1>1. ASSUME NEW n \in MeshNodes, Job(c, n) PROVE DiagInv'
    BY <1>1, SweepAsks, SweepCompletes, SweepReads DEF Job
<1> QED
    BY <1>1, SweepProbes, SweepFails, SweepLegacy, SweepClears, SweepGoesOn, SweepDiscovers,
       SweepFinal, SweepEnds DEF Sweep

LEMMA DiagStart == DiagInit => DiagInv
<1>1. SUFFICES ASSUME DiagInit PROVE DiagInv
    OBVIOUS
<1>2. PICK none : none = <<>>
    OBVIOUS
<1>3. none \in Seq(DiagItems) /\ none \in Seq(SweepRecords) /\ Len(none) = 0
    BY <1>2, EmptySeq
<1>4. sweeps = none /\ inFlight = 0 /\ router = [items |-> none, pending |-> {}, stamp |-> 0]
    BY <1>1, <1>2 DEF DiagInit
<1>5. DiagTypeOK
  <2>1. router \in RouterRecords
    <3>1. {} \in SUBSET MeshNodes /\ 0 \in Nat
      OBVIOUS
    <3> QED
      BY <1>3, <1>4, <3>1 DEF RouterRecords
  <2>2. NotProbed \in [api : {"unknown", "none"} \cup Routes, old : BOOLEAN, lost : {FALSE}]
    BY DEF NotProbed
  <2> QED
    BY <1>1, <2>1, <2>2 DEF DiagInit, DiagTypeOK
<1> QED
    BY <1>3, <1>4, <1>5 DEF DiagInv, SweepsInv, ListedInv

LEMMA DiagStep == DiagInv /\ [DiagNext]_diagVars => DiagInv'
<1>1. SUFFICES ASSUME DiagInv, [DiagNext]_diagVars PROVE DiagInv'
    OBVIOUS
<1>2. router \in RouterRecords /\ RouterOn(router, router)
    BY <1>1, RouterRests DEF DiagInv, DiagTypeOK
<1>3. CASE AskDiagnostics \/ NetworkUnknown
  <2>1. DiagTypeOK' /\ UNCHANGED <<sweeps, inFlight, router>>
    BY <1>1, <1>3 DEF AskDiagnostics, NetworkUnknown, DiagInv, DiagTypeOK
  <2> QED
    BY <1>1, <1>2, <2>1, SweepsRest
<1>4. CASE CollectAll \/ \E force \in BOOLEAN : StartOrJoin(force)
  <2>1. PICK force \in BOOLEAN : Started(force)
    BY <1>4 DEF CollectAll, StartOrJoin
  <2>2. browsing' \in BOOLEAN /\ UNCHANGED <<capability, router>>
    BY <1>1, <1>4 DEF CollectAll, StartOrJoin, DiagInv, DiagTypeOK
  <2> QED
    BY <1>1, <2>1, <2>2, SweepStarts
<1>5. CASE Ages
  <2>1. capability' \in [api : {"unknown", "none"} \cup Routes, old : BOOLEAN, lost : {FALSE}]
    <3>1. capability \in [api : {"unknown", "none"} \cup Routes, old : BOOLEAN, lost : {FALSE}]
      BY <1>1 DEF DiagInv, DiagTypeOK
    <3>2. capability' = capability \/ capability' = [capability EXCEPT !.old = TRUE]
      BY <1>5 DEF Ages
    <3> QED
      BY <3>1, <3>2
  <2>2. DiagTypeOK' /\ UNCHANGED <<sweeps, inFlight, router>>
    BY <1>1, <1>5, <2>1 DEF Ages, DiagInv, DiagTypeOK
  <2> QED
    BY <1>1, <1>2, <2>2, SweepsRest
<1>6. CASE UNCHANGED diagVars
  <2>1. DiagTypeOK' /\ UNCHANGED <<sweeps, inFlight, router>>
    BY <1>1, <1>6 DEF diagVars, DiagInv, DiagTypeOK
  <2> QED
    BY <1>1, <1>2, <2>1, SweepsRest
<1> QED
    BY <1>1, <1>3, <1>4, <1>5, <1>6, SweepStep, TaskComesLate DEF DiagNext

\* What the invariant says of the collections.
LEMMA DiagIsSound == DiagInv => SweepsAreSound
<1>1. SUFFICES ASSUME DiagInv PROVE SweepsAreSound
    OBVIOUS
<1>2. \A c \in 1 .. Len(sweeps) : inFlight = c <=> sweeps[c].at \notin {"store", "done"}
    BY <1>1 DEF DiagInv, ListedInv
<1>3. OneSweepAtATime
  <2>1. ASSUME NEW c \in 1 .. Len(sweeps), NEW d \in 1 .. Len(sweeps), c # d
        PROVE  {sweeps[c].at, sweeps[d].at} \cap {"unlist", "store", "done"} # {}
    <3>1. sweeps[c].at \in {"store", "done"} \/ sweeps[d].at \in {"store", "done"}
      BY <1>2, <2>1
    <3> QED
      BY <3>1
  <2> QED
    BY <2>1 DEF OneSweepAtATime
<1>4. WokenStartAnew
    BY <1>2 DEF WokenStartAnew
<1>5. \A c \in 1 .. Len(sweeps) : SweepOK(sweeps[c], router)
    BY <1>1 DEF DiagInv, SweepsInv
<1>6. LostRouterIsProbed
    BY <1>5 DEF LostRouterIsProbed, SweepOK
<1>7. SweepReadsItsOwn
    BY <1>5 DEF SweepReadsItsOwn, SweepOK, Dated, AllNewer
<1>8. EveryNodeHasAnEntry
  <2>1. ASSUME NEW c \in 1 .. Len(sweeps), NEW x \in sweeps[c].produced
        PROVE  \E i \in 1 .. Len(sweeps[c].nodes) :
                  /\ sweeps[c].nodes[i].rloc = x.rloc
                  /\ \A j \in 1 .. Len(sweeps[c].nodes) :
                        sweeps[c].nodes[j].rloc = x.rloc => j = i
    <3>1. Covered(sweeps[c]) /\ RlocsOnce(sweeps[c].nodes)
      BY <1>5 DEF SweepOK, SweepRecords, NodeLists
    <3> QED
      BY <3>1 DEF Covered, RlocsOnce
  <2> QED
    BY <2>1 DEF EveryNodeHasAnEntry
<1> QED
    BY <1>3, <1>4, <1>6, <1>7, <1>8 DEF SweepsAreSound

\* Whatever is asked of the cache and whatever the mesh and its border router
\* answer, one collection at a time asks a router that was known to answer,
\* nobody joins one that has ended, and its batch has every node it read once,
\* as this collection found it (ThreadDiagnosticsCache and otbr_rest's sweep).
THEOREM SweepsSound == DiagSpec => []SweepsAreSound
<1>1. DiagInit => DiagInv
    BY DiagStart
<1>2. DiagInv /\ [DiagNext]_diagVars => DiagInv'
    BY DiagStep
<1>3. DiagInv => SweepsAreSound
    BY DiagIsSound
<1> QED
    BY <1>1, <1>2, <1>3, PTL DEF DiagSpec

-----------------------------------------------------------------------------
(* A collection comes to its end.                                          *)

\* A worker asks while it has an attempt left.
AsksOn(v) == \A n \in MeshNodes : v.jobs[n].at = "asking" => v.jobs[n].left \in Nat \ {0}
AsksInv == \A c \in 1 .. Len(sweeps) : AsksOn(sweeps[c])

\* A collection v that goes a step is w, which asks on and is nearer to its end.
ComesNearer(w, v) == AsksOn(w) /\ Nearer(w, v)

\* What a step makes of a job is asked on, and there is less to do.
LessToDo(job, old) ==
    /\ job.at = "asking" => job.left \in Nat \ {0}
    /\ JobWork(job) \in 0 .. JobWork(old) /\ JobWork(job) # JobWork(old)

\* What a job has left to do is a count.
LEMMA JobWorkIs ==
    ASSUME NEW job \in JobRecords, job.at = "asking" => job.left \in Nat \ {0}
    PROVE  JobWork(job) \in Nat
<1>1. AttemptsPerNode \in Nat
    BY DiagAssumption
<1> QED
    BY <1>1 DEF JobWork

\* The count, by the state of the job.
LEMMA JobWorkAt ==
    ASSUME NEW job
    PROVE  /\ job.at = "queued" => JobWork(job) = AttemptsPerNode + 2
           /\ job.at = "asking" => JobWork(job) = job.left + 1
           /\ job.at = "reading" => JobWork(job) = 1
           /\ job.at = "done" => JobWork(job) = 0
    BY DEF JobWork

\* There is less to do when the work is less.
LEMMA LessIs ==
    ASSUME NEW job, NEW old, NEW a \in Nat, NEW b \in Nat, JobWork(job) = a, JobWork(old) = b, a < b,
           job.at = "asking" => job.left \in Nat \ {0}
    PROVE  LessToDo(job, old)
    BY DEF LessToDo

\* A stage that comes later.
LEMMA StageAdvances ==
    ASSUME NEW v, NEW w, AsksOn(w), Stage(w.at) < Stage(v.at)
    PROVE  ComesNearer(w, v)
    BY DEF ComesNearer, Nearer

\* Run::finish leaves nothing but the end.
LEMMA FinishedAdvances ==
    ASSUME NEW v \in SweepRecords, NEW reason,
           v.at \in {"probe", "legacy", "no_diagnostics", "discover", "final"}
    PROVE  ComesNearer(Finished(v, reason), v)
<1>1. PICK w : w = Finished(v, reason)
    OBVIOUS
<1>2. w.at = "unlist" /\ w.jobs = [n \in MeshNodes |-> NoJob]
    BY <1>1 DEF Finished, SweepRecords
<1>3. AsksOn(w)
    BY <1>2 DEF AsksOn, NoJob
<1>4. Stage(w.at) < Stage(v.at)
    BY <1>2 DEF Stage
<1> QED
    BY <1>1, <1>3, <1>4, StageAdvances

\* The same jobs at a later stage.
LEMMA GoesAdvances ==
    ASSUME NEW v, AsksOn(v), NEW w, w.jobs = v.jobs, Stage(w.at) < Stage(v.at)
    PROVE  ComesNearer(w, v)
<1>1. AsksOn(w)
    BY DEF AsksOn
<1> QED
    BY <1>1, StageAdvances

\* One job that goes on.
LEMMA JobAdvances ==
    ASSUME NEW v \in SweepRecords, AsksOn(v), NEW n \in MeshNodes, NEW job,
           LessToDo(job, v.jobs[n]), NEW w, w.at = v.at, w.jobs = [v.jobs EXCEPT ![n] = job]
    PROVE  ComesNearer(w, v)
<1>1. \A m \in MeshNodes : w.jobs[m] = IF m = n THEN job ELSE v.jobs[m]
    BY DEF SweepRecords
<1>2. \A m \in MeshNodes : JobWork(v.jobs[m]) \in Nat
  <2>1. TAKE m \in MeshNodes
  <2>2. v.jobs[m] \in JobRecords
    BY DEF SweepRecords
  <2>3. v.jobs[m].at = "asking" => v.jobs[m].left \in Nat \ {0}
    BY DEF AsksOn
  <2> QED
    BY <2>2, <2>3, JobWorkIs
<1>3. AsksOn(w)
    BY <1>1 DEF AsksOn, LessToDo
<1>4. \A m \in MeshNodes : JobWork(w.jobs[m]) \in 0 .. JobWork(v.jobs[m])
  <2>1. TAKE m \in MeshNodes
  <2>2. CASE m = n
    BY <1>1, <2>2 DEF LessToDo
  <2>3. CASE m # n
    <3>1. JobWork(w.jobs[m]) = JobWork(v.jobs[m])
      BY <1>1, <2>3
    <3> QED
      BY <1>2, <3>1
  <2> QED
    BY <2>2, <2>3
<1>5. JobWork(w.jobs[n]) # JobWork(v.jobs[n])
    BY <1>1 DEF LessToDo
<1>6. Nearer(w, v)
    BY <1>4, <1>5 DEF Nearer
<1> QED
    BY <1>3, <1>6 DEF ComesNearer

\* The job of a worker that asks or reads goes to another state.
LEMMA JobsDo ==
    ASSUME DiagInv, AsksInv, NEW c \in 1 .. Len(sweeps), NEW n \in MeshNodes,
           \/ TakeJob(c, n) \/ TaskCompletes(c, n) \/ TaskEmpty(c, n) \/ ReadFails(c, n)
           \/ \E pends \in BOOLEAN : TaskEnds(c, n, pends)
    PROVE  \E w : SweepTo(c, w) /\ ComesNearer(w, sweeps[c])
<1>1. PICK v : v = sweeps[c]
    OBVIOUS
<1>2. v \in SweepRecords /\ AsksOn(v)
    BY <1>1, SweepKnown DEF AsksInv
<1>3. PICK old \in JobRecords : old = v.jobs[n]
    BY <1>2 DEF SweepRecords
<1>4. AttemptsPerNode \in Nat \ {0}
    BY DiagAssumption
<1>5. old.at = "asking" => old.left \in Nat \ {0}
    BY <1>2, <1>3 DEF AsksOn
<1>6. ASSUME NEW job, JobTo(c, n, job), LessToDo(job, old)
      PROVE  \E w : SweepTo(c, w) /\ ComesNearer(w, sweeps[c])
  <2>1. PICK w : w = [v EXCEPT !.jobs[n] = job]
    OBVIOUS
  <2>2. w.at = v.at /\ w.jobs = [v.jobs EXCEPT ![n] = job]
    BY <1>2, <2>1 DEF SweepRecords
  <2>3. SweepTo(c, w)
    BY <1>1, <1>6, <2>1 DEF JobTo
  <2>4. ComesNearer(w, v)
    BY <1>2, <1>3, <1>6, <2>2, JobAdvances
  <2> QED
    BY <1>1, <2>3, <2>4
<1>7. [NoJob EXCEPT !.at = "done"].at = "done"
    BY DEF NoJob
<1>8. CASE TakeJob(c, n)
  <2>1. PICK job : job = [NoJob EXCEPT !.at = "asking", !.left = AttemptsPerNode]
    OBVIOUS
  <2>2. job.at = "asking" /\ job.left = AttemptsPerNode
    BY <2>1 DEF NoJob
  <2>3. old.at = "queued" /\ JobTo(c, n, job)
    BY <1>1, <1>3, <1>8, <2>1 DEF TakeJob
  <2>4. LessToDo(job, old)
    BY <1>4, <2>2, <2>3 DEF LessToDo, JobWork
  <2> QED
    BY <1>6, <2>3, <2>4
<1>9. CASE TaskEmpty(c, n) \/ ReadFails(c, n)
  <2>1. PICK job : job = [NoJob EXCEPT !.at = "done"]
    OBVIOUS
  <2>2. old.at \in {"asking", "reading"} /\ JobTo(c, n, job)
    BY <1>1, <1>3, <1>9, <2>1 DEF TaskEmpty, ReadFails
  <2>3. LessToDo(job, old)
    <3>1. job.at = "done" /\ JobWork(job) = 0
      BY <1>7, <2>1, JobWorkAt
    <3>2. JobWork(old) \in Nat \ {0}
      BY <1>5, <2>2, JobWorkAt
    <3>3. PICK b \in Nat \ {0} : b = JobWork(old)
      BY <3>2
    <3>4. b \in Nat /\ 0 \in Nat /\ 0 < b
      OBVIOUS
    <3> QED
      BY <3>1, <3>3, <3>4, LessIs
  <2> QED
    BY <1>6, <2>2, <2>3
<1>10. CASE TaskCompletes(c, n)
  <2>1. PICK job : job = [old EXCEPT !.at = "reading", !.stamp = router'.stamp]
    OBVIOUS
  <2>2. job.at = "reading"
    BY <2>1 DEF JobRecords
  <2>3. old.at = "asking" /\ JobTo(c, n, job)
    BY <1>1, <1>3, <1>10, <2>1 DEF TaskCompletes
  <2>4. PICK left \in Nat \ {0} : left = old.left
    BY <1>5, <2>3
  <2>5. JobWork(old) = left + 1 /\ JobWork(job) = 1
    BY <2>2, <2>3, <2>4, JobWorkAt
  <2>6. 1 \in Nat /\ left + 1 \in Nat /\ 1 < left + 1
    OBVIOUS
  <2>7. LessToDo(job, old)
    BY <2>2, <2>5, <2>6, LessIs
  <2> QED
    BY <1>6, <2>3, <2>7
<1>11. ASSUME NEW pends \in BOOLEAN, TaskEnds(c, n, pends)
       PROVE  \E w : SweepTo(c, w) /\ ComesNearer(w, sweeps[c])
  <2>1. PICK left : left = AttemptsLeft(old.left)
    OBVIOUS
  <2>2. PICK job : job = IF left = 0 THEN [NoJob EXCEPT !.at = "done"]
                         ELSE [old EXCEPT !.left = left, !.tries = @ + 1]
    OBVIOUS
  <2>3. old.at = "asking" /\ JobTo(c, n, job)
    BY <1>1, <1>3, <1>11, <2>1, <2>2 DEF TaskEnds
  <2>4. left \in Nat /\ left = old.left - 1
    BY <1>5, <2>1, <2>3 DEF AttemptsLeft
  <2>5. JobWork(old) = left + 2 /\ left + 1 \in Nat /\ left + 2 \in Nat /\ left + 1 < left + 2
    <3>1. JobWork(old) = old.left + 1
      BY <2>3, JobWorkAt
    <3>2. old.left \in Nat
      BY <1>5, <2>3
    <3>3. old.left = left + 1
      BY <2>4, <3>2
    <3> QED
      BY <2>4, <3>1, <3>3
  <2>6. LessToDo(job, old)
    <3>1. CASE left = 0
      <4>1. job.at = "done" /\ JobWork(job) = 0
        BY <1>7, <2>2, <3>1, JobWorkAt
      <4>2. 0 \in Nat /\ 0 < left + 2
        BY <3>1
      <4> QED
        BY <2>5, <4>1, <4>2, LessIs
    <3>2. CASE left # 0
      <4>1. job.at = "asking" /\ job.left = left
        BY <2>2, <2>3, <3>2 DEF JobRecords
      <4>2. JobWork(job) = left + 1
        BY <4>1, JobWorkAt
      <4> QED
        BY <2>4, <2>5, <3>2, <4>1, <4>2, LessIs
    <3> QED
      BY <3>1, <3>2
  <2> QED
    BY <1>6, <2>3, <2>6
<1> QED
    BY <1>8, <1>9, <1>10, <1>11

\* An item is read: the last step of its job.
LEMMA ReadAdvances ==
    ASSUME DiagInv, AsksInv, NEW c \in 1 .. Len(sweeps), NEW n \in MeshNodes, ReadItem(c, n)
    PROVE  \E w : SweepTo(c, w) /\ ComesNearer(w, sweeps[c])
<1>1. PICK v : v = sweeps[c]
    OBVIOUS
<1>2. v \in SweepRecords /\ AsksOn(v)
    BY <1>1, SweepKnown DEF AsksInv
<1>3. PICK old \in JobRecords : old = v.jobs[n]
    BY <1>2 DEF SweepRecords
<1>4. PICK x : x = Item(n, old.stamp)
    OBVIOUS
<1>5. PICK new, produced : new = AddNode(v.nodes, x) /\ produced = v.produced \cup {x}
    OBVIOUS
<1>6. PICK job : job = [old EXCEPT !.at = "done"]
    OBVIOUS
<1>7. PICK jobs : jobs = [v.jobs EXCEPT ![n] = job]
    OBVIOUS
<1>8. PICK w : w = [v EXCEPT !.jobs = jobs, !.produced = produced, !.nodes = new]
    OBVIOUS
<1>9. SweepTo(c, w)
  <2>1. SweepTo(c, [v EXCEPT !.jobs[n].at = "done", !.produced = @ \cup {x},
                             !.nodes = AddNode(@, x)])
    BY <1>1, <1>3, <1>4 DEF ReadItem
  <2>2. [v EXCEPT !.jobs[n].at = "done", !.produced = @ \cup {x}, !.nodes = AddNode(@, x)] = w
    BY <1>2, <1>3, <1>5, <1>6, <1>7, <1>8
  <2> QED
    BY <2>1, <2>2
<1>10. w.at = v.at /\ w.jobs = [v.jobs EXCEPT ![n] = job]
    BY <1>2, <1>7, <1>8 DEF SweepRecords
<1>11. old.at = "reading" /\ job.at = "done"
    BY <1>1, <1>3, <1>6 DEF ReadItem, JobRecords
<1>12. LessToDo(job, old)
  <2>1. JobWork(job) = 0 /\ JobWork(old) = 1
    BY <1>11, JobWorkAt
  <2>2. 0 \in Nat /\ 1 \in Nat /\ 0 < 1
    OBVIOUS
  <2> QED
    BY <1>11, <2>1, <2>2, LessIs
<1>13. ComesNearer(w, v)
    BY <1>2, <1>3, <1>10, <1>12, JobAdvances
<1> QED
    BY <1>1, <1>9, <1>13

\* Which router, and what ends there.
LEMMA EarlyAdvances ==
    ASSUME DiagInv, AsksInv, NEW c \in 1 .. Len(sweeps),
           \/ \E answers \in ProbeAnswers : Probe(c, answers)
           \/ \E why \in {"unreachable", "protocol"} : RequestFails(c, why)
           \/ CannotCollect(c)
    PROVE  \E w : SweepTo(c, w) /\ ComesNearer(w, sweeps[c])
<1>1. PICK v : v = sweeps[c]
    OBVIOUS
<1>2. v \in SweepRecords /\ AsksOn(v)
    BY <1>1, SweepKnown DEF AsksInv
<1>3. CASE (\E why \in {"unreachable", "protocol"} : RequestFails(c, why)) \/ CannotCollect(c)
  <2>1. PICK reason : SweepTo(c, Finished(v, reason))
    BY <1>1, <1>3 DEF RequestFails, CannotCollect, DiagFails
  <2>2. v.at \in {"probe", "legacy", "no_diagnostics", "discover", "final"}
    BY <1>1, <1>3 DEF RequestFails, CannotCollect
  <2> QED
    BY <1>1, <1>2, <2>1, <2>2, FinishedAdvances
<1>4. ASSUME NEW answers \in ProbeAnswers, Probe(c, answers)
      PROVE  \E w : SweepTo(c, w) /\ ComesNearer(w, sweeps[c])
  <2>1. PICK api, reused :
          /\ api = ProbedAs(c, answers) /\ reused = Remembers(sweeps[c].force)
          /\ reused \in BOOLEAN
    BY DEF Remembers
  <2>2. /\ v.at = "probe"
        /\ SweepTo(c, IF api = "none" THEN Finished(v, "no_credentials")
                      ELSE [v EXCEPT !.at = api, !.force = FALSE, !.source = "otbr_rest",
                                     !.reused = reused /\ capability.lost])
    <3>1. sweeps[c].at = "probe"
      BY <1>4, Zenon DEF Probe
    <3>2. SweepTo(c, IF ProbedAs(c, answers) = "none" THEN Finished(sweeps[c], "no_credentials")
                     ELSE [sweeps[c] EXCEPT !.at = ProbedAs(c, answers), !.force = FALSE,
                              !.source = "otbr_rest",
                              !.reused = Remembers(sweeps[c].force) /\ capability.lost])
      BY <1>4, Zenon DEF Probe
    <3> QED
      BY <1>1, <2>1, <3>1, <3>2, Zenon
  <2>3. api \in Routes \cup {"none"}
    <3>1. capability.api \in {"unknown", "none"} \cup Routes
      BY DEF DiagInv, DiagTypeOK
    <3>2. CASE Remembers(sweeps[c].force)
      BY <2>1, <3>1, <3>2 DEF ProbedAs, Remembers
    <3>3. CASE ~ Remembers(sweeps[c].force)
      BY <2>1, <3>3, ProbeFinds DEF ProbedAs
    <3> QED
      BY <3>2, <3>3
  <2>4. CASE api = "none"
    BY <1>1, <1>2, <2>2, <2>4, FinishedAdvances
  <2>5. CASE api # "none"
    <3>1. PICK w : w = [v EXCEPT !.at = api, !.force = FALSE, !.source = "otbr_rest",
                                 !.reused = reused /\ capability.lost]
      OBVIOUS
    <3>2. w.at = api /\ w.jobs = v.jobs
      BY <1>2, <3>1 DEF SweepRecords
    <3>3. Stage(w.at) < Stage(v.at)
      BY <2>2, <2>3, <2>5, <3>2 DEF Stage, Routes
    <3>4. SweepTo(c, w) /\ ComesNearer(w, v)
      BY <1>2, <2>2, <2>5, <3>1, <3>2, <3>3, GoesAdvances
    <3> QED
      BY <1>1, <3>4
  <2> QED
    BY <2>4, <2>5
<1> QED
    BY <1>3, <1>4

\* The sweep, and the end.
LEMMA StagesAdvance ==
    ASSUME DiagInv, AsksInv, NEW c \in 1 .. Len(sweeps),
           \/ CollectLegacy(c) \/ ClearDiagnostics(c) \/ ClearRefused(c)
           \/ \E listed \in SUBSET MeshNodes : Discover(c, listed)
           \/ Join(c) \/ FinalPass(c) \/ Unlist(c) \/ StoreBatch(c)
    PROVE  \E w : SweepTo(c, w) /\ ComesNearer(w, sweeps[c])
<1>1. PICK v : v = sweeps[c]
    OBVIOUS
<1>2. v \in SweepRecords /\ AsksOn(v)
    BY <1>1, SweepKnown DEF AsksInv
<1>3. CASE CollectLegacy(c) \/ FinalPass(c)
  <2>1. v.at \in {"legacy", "final"}
    BY <1>1, <1>3 DEF CollectLegacy, FinalPass
  <2>2. ASSUME NEW w, SweepTo(c, w), w.at = "unlist", w.jobs = [n \in MeshNodes |-> NoJob]
        PROVE  \E next : SweepTo(c, next) /\ ComesNearer(next, sweeps[c])
    <3>1. AsksOn(w)
      BY <2>2 DEF AsksOn, NoJob
    <3>2. Stage(w.at) < Stage(v.at)
      BY <2>1, <2>2 DEF Stage
    <3> QED
      BY <1>1, <2>2, <3>1, <3>2, StageAdvances
  <2>3. CASE CollectLegacy(c)
    <3>1. PICK items : items = SetToSeq({Item(n, router'.stamp) : n \in MeshNodes})
      OBVIOUS
    <3>2. PICK swept : swept = [v EXCEPT !.nodes = AddItems(@, items, {})[Len(items)], !.cleared = TRUE]
      OBVIOUS
    <3>3. PICK w : w = Finished(swept, "complete")
      OBVIOUS
    <3>4. SweepTo(c, w)
      BY <1>1, <2>3, <3>1, <3>2, <3>3 DEF CollectLegacy
    <3>5. w.at = "unlist" /\ w.jobs = [n \in MeshNodes |-> NoJob]
      BY <1>2, <3>2, <3>3 DEF Finished, SweepRecords
    <3> QED
      BY <2>2, <3>4, <3>5
  <2>4. CASE FinalPass(c)
    <3>1. PICK swept : swept = [v EXCEPT !.nodes = AddItems(@, router.items, v.produced)[Len(router.items)]]
      OBVIOUS
    <3>2. PICK w : w = Finished(swept, "complete")
      OBVIOUS
    <3>3. SweepTo(c, w)
      BY <1>1, <2>4, <3>1, <3>2 DEF FinalPass
    <3>4. w.at = "unlist" /\ w.jobs = [n \in MeshNodes |-> NoJob]
      BY <1>2, <3>1, <3>2 DEF Finished, SweepRecords
    <3> QED
      BY <2>2, <3>3, <3>4
  <2> QED
    BY <1>3, <2>3, <2>4
<1>4. CASE ClearRefused(c) \/ Join(c) \/ Unlist(c)
  <2>1. PICK at : /\ at = CASE v.at = "collection" -> "discover" [] v.at = "query" -> "final"
                            [] v.at = "unlist" -> "store"
                  /\ v.at \in {"collection", "query", "unlist"}
    BY <1>1, <1>4 DEF ClearRefused, Join, Unlist
  <2>2. PICK w : w = [v EXCEPT !.at = at]
    OBVIOUS
  <2>3. SweepTo(c, w)
    BY <1>1, <1>4, <2>1, <2>2 DEF ClearRefused, Join, Unlist, Goes
  <2>4. w.at = at /\ w.jobs = v.jobs
    BY <1>2, <2>2 DEF SweepRecords
  <2>5. Stage(w.at) < Stage(v.at)
    BY <2>1, <2>4 DEF Stage
  <2> QED
    BY <1>1, <1>2, <2>3, <2>4, <2>5, GoesAdvances
<1>5. CASE ClearDiagnostics(c)
  <2>1. PICK w : w = [v EXCEPT !.at = "discover", !.cleared = TRUE]
    OBVIOUS
  <2>2. v.at = "collection" /\ SweepTo(c, w)
    BY <1>1, <1>5, <2>1 DEF ClearDiagnostics
  <2>3. w.at = "discover" /\ w.jobs = v.jobs
    BY <1>2, <2>1 DEF SweepRecords
  <2>4. Stage(w.at) < Stage(v.at)
    BY <2>2, <2>3 DEF Stage
  <2> QED
    BY <1>1, <1>2, <2>2, <2>3, <2>4, GoesAdvances
<1>6. ASSUME NEW listed \in SUBSET MeshNodes, Discover(c, listed)
      PROVE  \E w : SweepTo(c, w) /\ ComesNearer(w, sweeps[c])
  <2>1. PICK jobs : jobs = [n \in MeshNodes |->
                               IF n \in listed THEN [NoJob EXCEPT !.at = "queued"] ELSE NoJob]
    OBVIOUS
  <2>2. PICK w : w = [v EXCEPT !.at = "query", !.jobs = jobs]
    OBVIOUS
  <2>3. v.at = "discover" /\ SweepTo(c, w)
    <3>1. sweeps[c].at = "discover"
      BY <1>6, Zenon DEF Discover
    <3>2. SweepTo(c, [sweeps[c] EXCEPT !.at = "query", !.jobs = jobs])
      BY <1>6, <2>1, Zenon DEF Discover
    <3> QED
      BY <1>1, <2>2, <3>1, <3>2
  <2>4. w.at = "query" /\ w.jobs = jobs
    BY <1>2, <2>2 DEF SweepRecords
  <2>5. NoJob.at # "asking" /\ [NoJob EXCEPT !.at = "queued"].at # "asking"
    BY DEF NoJob
  <2>6. AsksOn(w)
    BY <2>1, <2>4, <2>5 DEF AsksOn
  <2>7. Stage(w.at) < Stage(v.at)
    BY <2>3, <2>4 DEF Stage
  <2> QED
    BY <1>1, <2>3, <2>6, <2>7, StageAdvances
<1>7. CASE StoreBatch(c)
  <2>1. PICK w : w = [NewSweep(FALSE) EXCEPT !.at = "done"]
    OBVIOUS
  <2>2. w.at = "done" /\ w.jobs = [n \in MeshNodes |-> NoJob]
    BY <2>1 DEF NewSweep
  <2>3. v.at = "store" /\ SweepTo(c, w)
    BY <1>1, <1>7, <2>1 DEF StoreBatch
  <2>4. AsksOn(w)
    BY <2>2 DEF AsksOn, NoJob
  <2>5. Stage(w.at) < Stage(v.at)
    BY <2>2, <2>3 DEF Stage
  <2> QED
    BY <1>1, <2>3, <2>4, <2>5, StageAdvances
<1> QED
    BY <1>3, <1>4, <1>5, <1>6, <1>7

\* Every step of a collection is one nearer to its end.
LEMMA SweepAdvances ==
    ASSUME DiagInv, AsksInv, NEW c \in 1 .. Len(sweeps), Sweep(c)
    PROVE  \E w : SweepTo(c, w) /\ ComesNearer(w, sweeps[c])
<1>1. ASSUME NEW n \in MeshNodes, Job(c, n)
      PROVE  \E w : SweepTo(c, w) /\ ComesNearer(w, sweeps[c])
    BY <1>1, JobsDo, ReadAdvances DEF Job
<1> QED
    BY <1>1, EarlyAdvances, StagesAdvance DEF Sweep

\* All collections, in a step of any actor: the others stay as they are, and
\* one that begins asks no node yet.
LEMMA SweepsStep ==
    ASSUME DiagInv, AsksInv, [DiagNext]_diagVars
    PROVE  /\ AsksInv'
           /\ \A c \in DOMAIN sweeps : sweeps'[c] # sweeps[c] => Nearer(sweeps'[c], sweeps[c])
<1>1. sweeps \in Seq(SweepRecords)
    BY DEF DiagInv, SweepsInv
<1>2. PICK m \in Nat : m = Len(sweeps) /\ DOMAIN sweeps = 1 .. m
    BY <1>1
<1>3. \A c \in 1 .. m : AsksOn(sweeps[c])
    BY <1>2 DEF AsksInv
<1>4. ASSUME NEW c \in 1 .. m, Sweep(c)
      PROVE  /\ Len(sweeps') = m
             /\ \A d \in 1 .. m : /\ AsksOn(sweeps'[d])
                                  /\ sweeps'[d] # sweeps[d] => Nearer(sweeps'[d], sweeps[d])
  <2>1. PICK w : SweepTo(c, w) /\ ComesNearer(w, sweeps[c])
    BY <1>2, <1>4, SweepAdvances
  <2>2. sweeps' = [sweeps EXCEPT ![c] = w]
    BY <2>1 DEF SweepTo
  <2>3. /\ DOMAIN sweeps' = 1 .. m
        /\ \A d \in 1 .. m : sweeps'[d] = IF d = c THEN w ELSE sweeps[d]
    BY <1>2, <2>2
  <2>4. sweeps' \in Seq(SweepRecords)
    BY <1>2, <1>4, SweepStep DEF DiagInv, SweepsInv
  <2>5. Len(sweeps') = m
    BY <2>3, <2>4
  <2>6. AsksOn(w) /\ Nearer(w, sweeps[c])
    BY <2>1 DEF ComesNearer
  <2> QED
    BY <1>3, <2>3, <2>5, <2>6
<1>5. ASSUME NEW force \in BOOLEAN, Started(force)
      PROVE  /\ Len(sweeps') \in {m, m + 1}
             /\ \A d \in 1 .. m : sweeps'[d] = sweeps[d]
             /\ Len(sweeps') = m + 1 => AsksOn(sweeps'[m + 1])
  <2>1. CASE Joins(force)
    BY <1>2, <1>5, <2>1 DEF Started
  <2>2. CASE ~ Joins(force)
    <3>1. PICK w : w = [NewSweep(force) EXCEPT !.since = router.stamp]
      OBVIOUS
    <3>2. w.jobs = [n \in MeshNodes |-> NoJob]
      BY <3>1 DEF NewSweep
    <3>3. AsksOn(w)
      BY <3>2 DEF AsksOn, NoJob
    <3>4. sweeps' = Append(sweeps, w)
      BY <1>5, <2>2, <3>1 DEF Started
    <3>5. w.at = "probe"
      BY <3>1 DEF NewSweep
    <3>6. w \in SweepRecords
      BY <3>1, <3>5, NewIsOK DEF DiagInv, DiagTypeOK, SweepOK
    <3>7. /\ Len(sweeps') = m + 1 /\ sweeps'[m + 1] = w
          /\ \A d \in 1 .. m : sweeps'[d] = sweeps[d]
      BY <1>1, <1>2, <3>4, <3>6, AppendProperties
    <3> QED
      BY <3>3, <3>7
  <2> QED
    BY <2>1, <2>2
<1>6. /\ Len(sweeps') \in {m, m + 1}
      /\ \A d \in 1 .. m : AsksOn(sweeps'[d]) /\ (sweeps'[d] # sweeps[d] => Nearer(sweeps'[d], sweeps[d]))
      /\ Len(sweeps') = m + 1 => AsksOn(sweeps'[m + 1])
  <2>1. CASE \E c \in 1 .. Len(sweeps) : Sweep(c)
    <3>1. m # m + 1
      OBVIOUS
    <3>2. PICK c \in 1 .. m : Sweep(c)
      BY <1>2, <2>1
    <3> QED
      BY <1>4, <3>1, <3>2
  <2>2. CASE CollectAll \/ \E force \in BOOLEAN : StartOrJoin(force)
    <3>1. PICK force \in BOOLEAN : Started(force)
      BY <2>2 DEF CollectAll, StartOrJoin
    <3> QED
      BY <1>3, <1>5, <3>1
  <2>3. CASE UNCHANGED sweeps
    <3>1. m # m + 1
      OBVIOUS
    <3> QED
      BY <1>2, <1>3, <2>3, <3>1
  <2>4. \/ \E c \in 1 .. Len(sweeps) : Sweep(c)
        \/ CollectAll \/ \E force \in BOOLEAN : StartOrJoin(force)
        \/ UNCHANGED sweeps
    <3>1. AskDiagnostics \/ NetworkUnknown \/ Ages => UNCHANGED sweeps
      BY DEF AskDiagnostics, NetworkUnknown, Ages
    <3>2. (\E n \in MeshNodes : LateTask(n)) => UNCHANGED sweeps
      BY DEF LateTask
    <3>3. UNCHANGED diagVars => UNCHANGED sweeps
      BY DEF diagVars
    <3> QED
      BY <3>1, <3>2, <3>3, Zenon DEF DiagNext
  <2> QED
    BY <2>1, <2>2, <2>3, <2>4
<1>7. AsksInv'
  <2>1. \A d \in 1 .. m + 1 : d \in 1 .. m \/ d = m + 1
    OBVIOUS
  <2> QED
    BY <1>6, <2>1 DEF AsksInv
<1> QED
    BY <1>2, <1>6, <1>7

\* However many nodes of the mesh stay silent and requests fail, and whatever
\* is asked of the cache meanwhile, every step of a collection takes it to a
\* later stage, or a job of it nearer to its end (ATTEMPTS_PER_NODE and
\* Run::execute).
THEOREM SweepsGetOn == DiagSpec => SweepsAdvance
<1>1. DiagInit => DiagInv /\ AsksInv
  <2>1. SUFFICES ASSUME DiagInit PROVE DiagInv /\ AsksInv
    OBVIOUS
  <2>2. Len(sweeps) = 0
    BY <2>1 DEF DiagInit
  <2> QED
    BY <2>1, <2>2, DiagStart DEF AsksInv
<1>2. DiagInv /\ AsksInv /\ [DiagNext]_diagVars => DiagInv' /\ AsksInv'
    BY DiagStep, SweepsStep
<1>3. DiagInv /\ AsksInv /\ [DiagNext]_diagVars =>
        [\A c \in DOMAIN sweeps :
            sweeps'[c] # sweeps[c] => Nearer(sweeps'[c], sweeps[c])]_diagVars
    BY SweepsStep
<1> QED
    BY <1>1, <1>2, <1>3, PTL DEF DiagSpec, SweepsAdvance

-----------------------------------------------------------------------------
(* Check-ins.                                                              *)

\* Types.
IcdTypeOK ==
    /\ reg \in [IcdNodes -> [key : Nat, counter : Nat \cup {NoCounter}]]
    /\ regDisk \in [IcdNodes -> [key : Nat, counter : Nat \cup {NoCounter}]]
    /\ icd \in [IcdNodes -> [key : Nat, counter : Nat, wrapped : BOOLEAN]]
    /\ \A n \in IcdNodes : icd[n].counter < CounterRange
    /\ air \subseteq [key : Nat \ {0}, counter : Nat]
    /\ receipt \in [node : IcdNodes, key : Nat \ {0}, counter : Nat] \cup {NoReceipt}
    /\ icdReq \in [IcdConns -> [at : {"idle", "register", "store", "drop"},
                                node : IcdNodes \cup {"none"}, key : Nat]]
    /\ \A c \in IcdConns : icdReq[c].at # "idle" => icdReq[c].node \in IcdNodes
    /\ \A c \in IcdConns : icdReq[c].at \in {"register", "store"} => icdReq[c].key # NoKey
    /\ icdUsed \in [keys : Nat, checkins : Nat, faults : Nat]
    /\ accepted \subseteq [key : Nat \ {0}, counter : Nat]
    /\ replayed \in BOOLEAN /\ forgot \in BOOLEAN
    /\ strayed \subseteq IcdNodes

\* A request that has a key which is not stored yet.
Pending(c) == icdReq[c].at \in {"register", "store"}

\* The node has to do with the key.
Uses(n, k) ==
    /\ k # NoKey
    /\ \/ reg[n].key = k \/ regDisk[n].key = k \/ icd[n].key = k
       \/ receipt # NoReceipt /\ receipt.node = n /\ receipt.key = k
       \/ \E c \in IcdConns : Pending(c) /\ icdReq[c].node = n /\ icdReq[c].key = k

\* A key was generated once, for one node.
OwnerInv ==
    /\ \A n \in IcdNodes, k \in Nat : Uses(n, k) => k <= icdUsed.keys
    /\ \A m \in air : m.key <= icdUsed.keys
    /\ \A a \in accepted : a.key <= icdUsed.keys
    /\ \A n, o \in IcdNodes, k \in Nat : Uses(n, k) /\ Uses(o, k) => n = o

\* A key that is not stored yet has read no check-in.
PendingInv ==
    \A c \in IcdConns : Pending(c) =>
        /\ \A n \in IcdNodes : reg[n].key # icdReq[c].key /\ regDisk[n].key # icdReq[c].key
        /\ receipt # NoReceipt => receipt.key # icdReq[c].key
        /\ \A a \in accepted : a.key # icdReq[c].key
        /\ \A d \in IcdConns : Pending(d) /\ icdReq[d].key = icdReq[c].key => d = c

\* No counter is ahead of the device it is about, until that one wraps.
FreshInv ==
    \A n \in IcdNodes : ~ icd[n].wrapped =>
        /\ reg[n].counter <= icd[n].counter /\ regDisk[n].counter <= icd[n].counter
        /\ receipt # NoReceipt /\ receipt.node = n => receipt.counter <= icd[n].counter
        /\ \A m \in air : Uses(n, m.key) => m.counter <= icd[n].counter

\* What was accepted is covered by the counter in memory; what was identified
\* is not, or belongs to a registration that has been replaced by one under
\* which nothing was accepted.
OnceInv ==
    /\ replayed => forgot
    /\ ~ forgot =>
          /\ \A n \in IcdNodes, a \in accepted : a.key = reg[n].key => a.counter <= reg[n].counter
          /\ receipt # NoReceipt =>
                /\ [key |-> receipt.key, counter |-> receipt.counter] \notin accepted
                /\ IF reg[receipt.node].key = receipt.key
                   THEN reg[receipt.node].counter < receipt.counter
                   ELSE \A a \in accepted : a.key # reg[receipt.node].key

\* What a request leaves of the agreement between a device and the store.
Agree(n) == icd[n].key # NoKey => reg[n].key = icd[n].key

Settled(n) ==
    /\ \A c, d \in Busy(n) : c = d
    /\ Busy(n) = {} => Agree(n)
    /\ \A c \in Busy(n) :
          /\ icdReq[c].at = "register" => Agree(n)
          /\ icdReq[c].at = "store" => icd[n].key = icdReq[c].key

AgreeInv == \A n \in IcdNodes \ strayed : Settled(n)

IcdInv == IcdTypeOK /\ OwnerInv /\ PendingInv /\ FreshInv /\ OnceInv /\ AgreeInv

LEMMA NextCounter ==
    ASSUME NEW x \in Nat, x < CounterRange
    PROVE  /\ (x + 1) % CounterRange \in Nat /\ (x + 1) % CounterRange < CounterRange
           /\ (x + 1) % CounterRange # 0 => x <= (x + 1) % CounterRange
<1>1. CounterRange \in Nat \ {0}
    BY IcdAssumption
<1>2. CASE x + 1 < CounterRange
  <2>1. (x + 1) % CounterRange = x + 1
    BY <1>1, <1>2
  <2> QED
    BY <2>1, <1>2
<1>3. CASE x + 1 = CounterRange
  <2>1. (x + 1) % CounterRange = 0
    BY <1>1, <1>3
  <2> QED
    BY <2>1, <1>1
<1> QED
    BY <1>1, <1>2, <1>3

-----------------------------------------------------------------------------
(* What each action does, field by field.                                  *)

\* A request ends without a change of the store.
LEMMA EndEffect ==
    ASSUME IcdTypeOK, NEW c \in IcdConns,
           RegisterRefused(c) \/ RegisterUnanswered(c) \/ DropAnswered(c) \/ DropFailed(c)
    PROVE  /\ icdReq'[c].at = "idle" /\ \A d \in IcdConns : d # c => icdReq'[d] = icdReq[d]
           /\ UNCHANGED <<reg, regDisk, air, receipt, accepted, replayed, forgot>>
           /\ icdUsed'.keys = icdUsed.keys /\ IcdTypeOK'
           /\ \A m \in IcdNodes : /\ icd'[m].counter = icd[m].counter
                                  /\ icd'[m].wrapped = icd[m].wrapped
                                  /\ m # icdReq[c].node => icd'[m].key = icd[m].key
           /\ LET n == icdReq[c].node
              IN  \/ /\ icdReq[c].at = "register" /\ icd'[n].key = icd[n].key
                     /\ strayed' = strayed
                  \/ /\ icdReq[c].at = "register" /\ icd'[n].key = icdReq[c].key
                     /\ strayed' = strayed \cup {n}
                  \/ /\ icdReq[c].at = "drop" /\ icd'[n].key = NoKey
                     /\ strayed' = strayed
                  \/ /\ icdReq[c].at = "drop" /\ icd'[n].key = icd[n].key
                     /\ strayed' = strayed \cup {n}
<1> DEFINE n == icdReq[c].node
<1>1. /\ icdReq' = [icdReq EXCEPT ![c] = IcdIdle] /\ icdReq[c].at \in {"register", "drop"}
      /\ UNCHANGED <<reg, regDisk, air, receipt, accepted, replayed, forgot>>
    BY DEF RegisterRefused, RegisterUnanswered, DropAnswered, DropFailed, IcdEnds, icdHistory
<1>2. /\ icdUsed' \in [keys : Nat, checkins : Nat, faults : Nat]
      /\ icdUsed'.keys = icdUsed.keys
    BY DEF RegisterRefused, RegisterUnanswered, DropAnswered, DropFailed, IcdFault, IcdTypeOK
<1>3. /\ icdReq' \in [IcdConns -> [at : {"idle", "register", "store", "drop"},
                                   node : IcdNodes \cup {"none"}, key : Nat]]
      /\ icdReq'[c].at = "idle" /\ \A d \in IcdConns : d # c => icdReq'[d] = icdReq[d]
    BY <1>1 DEF IcdIdle, IcdTypeOK, NoKey
<1>4. n \in IcdNodes /\ icdReq[c].key \in Nat /\ NoKey \in Nat
    BY <1>1 DEF IcdTypeOK, NoKey
<1>5. \/ icdReq[c].at = "register" /\ icd' = icd /\ strayed' = strayed
      \/ /\ icdReq[c].at = "register" /\ icd' = [icd EXCEPT ![n].key = icdReq[c].key]
         /\ strayed' = strayed \cup {n}
      \/ icdReq[c].at = "drop" /\ icd' = [icd EXCEPT ![n].key = NoKey] /\ strayed' = strayed
      \/ icdReq[c].at = "drop" /\ icd' = icd /\ strayed' = strayed \cup {n}
    BY DEF RegisterRefused, RegisterUnanswered, DropAnswered, DropFailed, HoldsKey, icdHistory
<1>6. icd' = icd \/ \E k \in {NoKey, icdReq[c].key} : icd' = [icd EXCEPT ![n].key = k]
    BY <1>5
<1> HIDE DEF n
<1>7. /\ icd' \in [IcdNodes -> [key : Nat, counter : Nat, wrapped : BOOLEAN]]
      /\ \A m \in IcdNodes : /\ icd'[m].counter = icd[m].counter
                             /\ icd'[m].wrapped = icd[m].wrapped
                             /\ m # n => icd'[m].key = icd[m].key
    BY SMTT(30), <1>4, <1>6 DEF IcdTypeOK
<1>8. strayed' \subseteq IcdNodes
    BY <1>4, <1>5 DEF IcdTypeOK
<1>9. \A m \in IcdNodes : icd'[m].counter < CounterRange
    BY <1>7 DEF IcdTypeOK
<1>10. IcdTypeOK'
    BY <1>1, <1>2, <1>3, <1>7, <1>8, <1>9 DEF IcdTypeOK
<1>11. \/ icdReq[c].at = "register" /\ icd'[n].key = icd[n].key /\ strayed' = strayed
       \/ /\ icdReq[c].at = "register" /\ icd'[n].key = icdReq[c].key
          /\ strayed' = strayed \cup {n}
       \/ icdReq[c].at = "drop" /\ icd'[n].key = NoKey /\ strayed' = strayed
       \/ /\ icdReq[c].at = "drop" /\ icd'[n].key = icd[n].key
          /\ strayed' = strayed \cup {n}
    BY <1>4, <1>5 DEF IcdTypeOK
<1> QED
    BY <1>1, <1>2, <1>3, <1>7, <1>10, <1>11 DEF n

\* A request begins: a registration with a new key, an unregistration that
\* has removed the registration, or a resynchronisation.
LEMMA BeginEffect ==
    ASSUME IcdTypeOK, NEW c \in IcdConns, NEW n \in IcdNodes,
           \/ \E allow \in BOOLEAN, ignored \in SUBSET Vendors[n] : Register(c, n, allow, ignored)
           \/ Unregister(c, n, FALSE) \/ Resync(c, n)
    PROVE  /\ icdReq[c].at = "idle" /\ icdReq'[c].node = n
           /\ \A d \in IcdConns : d # c => icdReq'[d] = icdReq[d]
           /\ UNCHANGED <<icd, air, receipt, accepted, replayed, forgot>>
           /\ strayed' = (IF Busy(n) # {} THEN strayed \cup {n} ELSE strayed)
           /\ IcdTypeOK'
           /\ \/ /\ icdReq'[c].at = "register" /\ icdReq'[c].key = icdUsed.keys + 1
                 /\ icdUsed'.keys = icdUsed.keys + 1 /\ UNCHANGED <<reg, regDisk>>
              \/ /\ icdReq'[c].at = "drop" /\ icdUsed'.keys = icdUsed.keys
                 /\ \/ UNCHANGED <<reg, regDisk>>
                    \/ reg' = [reg EXCEPT ![n] = Unregistered] /\ regDisk' \in {reg', regDisk}
<1>1. /\ icdReq[c].at = "idle" /\ UNCHANGED <<icd, air, receipt, accepted, replayed, forgot>>
      /\ strayed' = (IF Busy(n) # {} THEN strayed \cup {n} ELSE strayed)
    BY DEF Register, Unregister, Resync, Overlaps
<1>u. ASSUME icdUsed' = icdUsed \/ IcdFault
      PROVE  /\ icdUsed' \in [keys : Nat, checkins : Nat, faults : Nat]
             /\ icdUsed'.keys = icdUsed.keys
    BY <1>u DEF IcdFault, IcdTypeOK
<1>2. strayed' \subseteq IcdNodes
    BY <1>1 DEF IcdTypeOK
<1>3. CASE \E allow \in BOOLEAN, ignored \in SUBSET Vendors[n] : Register(c, n, allow, ignored)
  <2>1. /\ icdReq' = [icdReq EXCEPT ![c] = [at |-> "register", node |-> n, key |-> icdUsed.keys + 1]]
        /\ icdUsed' = [icdUsed EXCEPT !.keys = @ + 1] /\ UNCHANGED <<reg, regDisk>>
    BY <1>3 DEF Register
  <2>2. /\ icdUsed' \in [keys : Nat, checkins : Nat, faults : Nat] /\ icdUsed.keys \in Nat
        /\ icdUsed'.keys = icdUsed.keys + 1
    BY SMTT(30), <2>1 DEF IcdTypeOK
  <2>3. /\ icdReq' \in [IcdConns -> [at : {"idle", "register", "store", "drop"},
                                     node : IcdNodes \cup {"none"}, key : Nat]]
        /\ icdReq'[c].at = "register" /\ icdReq'[c].node = n /\ icdReq'[c].key = icdUsed.keys + 1
        /\ \A d \in IcdConns : d # c => icdReq'[d] = icdReq[d]
    BY <2>1, <2>2 DEF IcdTypeOK
  <2>4. icdReq'[c].key # NoKey
    BY <2>2, <2>3 DEF NoKey
  <2>5. IcdTypeOK'
    BY <1>1, <1>2, <2>1, <2>2, <2>3, <2>4 DEF IcdTypeOK
  <2> QED
    BY <1>1, <2>1, <2>2, <2>3, <2>5
<1>4. CASE Unregister(c, n, FALSE) \/ Resync(c, n)
  <2>1. /\ icdReq' = [icdReq EXCEPT ![c] = [at |-> "drop", node |-> n, key |-> NoKey]]
        /\ icdUsed' = icdUsed \/ IcdFault
        /\ \/ UNCHANGED <<reg, regDisk>>
           \/ reg' = [reg EXCEPT ![n] = Unregistered] /\ regDisk' \in {reg', regDisk}
    BY <1>4 DEF Unregister, ForgetKey, Resync
  <2>2. /\ icdReq' \in [IcdConns -> [at : {"idle", "register", "store", "drop"},
                                     node : IcdNodes \cup {"none"}, key : Nat]]
        /\ icdReq'[c].at = "drop" /\ icdReq'[c].node = n
        /\ \A d \in IcdConns : d # c => icdReq'[d] = icdReq[d]
    BY <2>1 DEF IcdTypeOK, NoKey
  <2>3. /\ reg' \in [IcdNodes -> [key : Nat, counter : Nat \cup {NoCounter}]]
        /\ regDisk' \in [IcdNodes -> [key : Nat, counter : Nat \cup {NoCounter}]]
    <3>1. Unregistered \in [key : Nat, counter : Nat \cup {NoCounter}]
      BY DEF Unregistered, NoKey
    <3>2. [reg EXCEPT ![n] = Unregistered] \in [IcdNodes -> [key : Nat, counter : Nat \cup {NoCounter}]]
      BY <3>1 DEF IcdTypeOK
    <3> QED
      BY ZenonT(60), <2>1, <3>2 DEF IcdTypeOK
  <2>4. IcdTypeOK'
    BY <1>1, <1>2, <1>u, <2>1, <2>2, <2>3 DEF IcdTypeOK
  <2> QED
    BY <1>1, <1>u, <2>1, <2>2, <2>4
<1> QED
    BY <1>3, <1>4

\* The registration is removed.
LEMMA RemovedIs ==
    ASSUME IcdTypeOK, NEW n \in IcdNodes, reg' = [reg EXCEPT ![n] = Unregistered]
    PROVE  /\ reg'[n].key = NoKey /\ reg'[n].counter = NoCounter
           /\ \A m \in IcdNodes : m # n => reg'[m] = reg[m]
BY DEF IcdTypeOK, Unregistered

\* A forced unregistration ends at once.
LEMMA ForceEffect ==
    ASSUME IcdTypeOK, NEW c \in IcdConns, NEW n \in IcdNodes, Unregister(c, n, TRUE)
    PROVE  /\ UNCHANGED <<icdReq, icd, air, receipt, accepted, replayed, forgot>>
           /\ icdUsed'.keys = icdUsed.keys
           /\ strayed' = strayed \cup {n} /\ IcdTypeOK'
           /\ reg' = [reg EXCEPT ![n] = Unregistered] /\ regDisk' \in {reg', regDisk}
<1>1. /\ UNCHANGED <<icdReq, icd, air, receipt, accepted, replayed, forgot>>
      /\ icdUsed' = icdUsed \/ IcdFault
      /\ strayed' = strayed \cup {n}
      /\ reg' = [reg EXCEPT ![n] = Unregistered] /\ regDisk' \in {reg', regDisk}
    BY DEF Unregister, ForgetKey
<1>u. /\ icdUsed' \in [keys : Nat, checkins : Nat, faults : Nat]
      /\ icdUsed'.keys = icdUsed.keys
    BY <1>1 DEF IcdFault, IcdTypeOK
<1>2. reg' \in [IcdNodes -> [key : Nat, counter : Nat \cup {NoCounter}]]
    BY <1>1 DEF IcdTypeOK, Unregistered, NoKey
<1>3. IcdTypeOK'
    BY <1>1, <1>2, <1>u DEF IcdTypeOK
<1> QED
    BY <1>1, <1>3, <1>u

\* The device takes the key that is sent.
LEMMA TakesEffect ==
    ASSUME IcdTypeOK, NEW c \in IcdConns, RegisterAccepted(c)
    PROVE  /\ icdReq[c].at = "register" /\ icdReq'[c].at = "store"
           /\ icdReq'[c].node = icdReq[c].node /\ icdReq'[c].key = icdReq[c].key
           /\ icdReq[c].node \in IcdNodes
           /\ \A d \in IcdConns : d # c => icdReq'[d] = icdReq[d]
           /\ UNCHANGED <<reg, regDisk, air, receipt, icdUsed, accepted, replayed, forgot, strayed>>
           /\ IcdTypeOK'
           /\ \A m \in IcdNodes : /\ icd'[m].counter = icd[m].counter
                                  /\ icd'[m].wrapped = icd[m].wrapped
                                  /\ m # icdReq[c].node => icd'[m].key = icd[m].key
           /\ icd'[icdReq[c].node].key = icdReq[c].key
<1> DEFINE n == icdReq[c].node
<1>1. /\ icdReq' = [icdReq EXCEPT ![c].at = "store"] /\ icdReq[c].at = "register"
      /\ icd' = [icd EXCEPT ![n].key = icdReq[c].key]
      /\ UNCHANGED <<reg, regDisk, air, receipt, icdUsed, accepted, replayed, forgot, strayed>>
    BY DEF RegisterAccepted, IcdGoes, HoldsKey, icdHistory
<1>2. n \in IcdNodes /\ icdReq[c].key \in Nat /\ icdReq[c].key # NoKey
    BY <1>1 DEF IcdTypeOK
<1>3. /\ icdReq' \in [IcdConns -> [at : {"idle", "register", "store", "drop"},
                                   node : IcdNodes \cup {"none"}, key : Nat]]
      /\ icdReq'[c].at = "store" /\ icdReq'[c].node = n /\ icdReq'[c].key = icdReq[c].key
      /\ \A d \in IcdConns : d # c => icdReq'[d] = icdReq[d]
    BY <1>1 DEF IcdTypeOK
<1> HIDE DEF n
<1>4. /\ icd' \in [IcdNodes -> [key : Nat, counter : Nat, wrapped : BOOLEAN]]
      /\ \A m \in IcdNodes : /\ icd'[m].counter = icd[m].counter
                             /\ icd'[m].wrapped = icd[m].wrapped
                             /\ m # n => icd'[m].key = icd[m].key
      /\ icd'[n].key = icdReq[c].key
    BY <1>1, <1>2 DEF IcdTypeOK
<1>5. IcdTypeOK'
    BY <1>1, <1>2, <1>3, <1>4 DEF IcdTypeOK
<1> QED
    BY <1>1, <1>2, <1>3, <1>4, <1>5 DEF n

\* The key is stored, on disk too or in memory only.
LEMMA StoreEffect ==
    ASSUME IcdTypeOK, NEW c \in IcdConns, StoreKey(c) \/ StoreKeyUnsaved(c)
    PROVE  /\ icdReq[c].at = "store" /\ icdReq'[c].at = "idle" /\ icdReq[c].node \in IcdNodes
           /\ \A d \in IcdConns : d # c => icdReq'[d] = icdReq[d]
           /\ UNCHANGED <<icd, air, receipt, accepted, replayed, forgot>>
           /\ icdUsed'.keys = icdUsed.keys /\ IcdTypeOK'
           /\ reg'[icdReq[c].node].key = icdReq[c].key
           /\ reg'[icdReq[c].node].counter = NoCounter
           /\ \A m \in IcdNodes : m # icdReq[c].node => reg'[m] = reg[m]
           /\ regDisk' \in {reg', regDisk}
           /\ \/ strayed' = strayed
              \/ /\ strayed' = strayed \ {icdReq[c].node} /\ Busy(icdReq[c].node) = {c}
                 /\ icd[icdReq[c].node].key = icdReq[c].key
<1> DEFINE n == icdReq[c].node
<1>1. /\ icdReq' = [icdReq EXCEPT ![c] = IcdIdle] /\ icdReq[c].at = "store"
      /\ reg' = [reg EXCEPT ![n] = [key |-> icdReq[c].key, counter |-> NoCounter]]
      /\ regDisk' \in {reg', regDisk}
      /\ UNCHANGED <<icd, air, receipt, accepted, replayed, forgot>>
      /\ \/ strayed' = strayed
         \/ strayed' = strayed \ {n} /\ Busy(n) = {c} /\ icd[n].key = icdReq[c].key
    BY DEF StoreKey, StoreKeyUnsaved, IcdEnds, icdHistory
<1>2. n \in IcdNodes /\ icdReq[c].key \in Nat
    BY <1>1 DEF IcdTypeOK
<1>3. /\ icdUsed' \in [keys : Nat, checkins : Nat, faults : Nat]
      /\ icdUsed'.keys = icdUsed.keys
    BY DEF StoreKey, StoreKeyUnsaved, IcdFault, IcdTypeOK
<1>4. /\ icdReq' \in [IcdConns -> [at : {"idle", "register", "store", "drop"},
                                   node : IcdNodes \cup {"none"}, key : Nat]]
      /\ icdReq'[c].at = "idle" /\ \A d \in IcdConns : d # c => icdReq'[d] = icdReq[d]
    BY <1>1 DEF IcdIdle, IcdTypeOK, NoKey
<1> HIDE DEF n
<1>5. /\ reg' \in [IcdNodes -> [key : Nat, counter : Nat \cup {NoCounter}]]
      /\ reg'[n].key = icdReq[c].key /\ reg'[n].counter = NoCounter
      /\ \A m \in IcdNodes : m # n => reg'[m] = reg[m]
    BY <1>1, <1>2 DEF IcdTypeOK
<1>6. IcdTypeOK'
    BY ZenonT(60), <1>1, <1>3, <1>4, <1>5 DEF IcdTypeOK
<1> QED
    BY <1>1, <1>2, <1>3, <1>4, <1>5, <1>6 DEF n

\* A device sends its next counter under the key it holds.
LEMMA SendEffect ==
    ASSUME IcdTypeOK, NEW n \in IcdNodes, SendCheckIn(n)
    PROVE  /\ UNCHANGED <<reg, regDisk, receipt, icdReq, accepted, replayed, forgot, strayed>>
           /\ icdUsed'.keys = icdUsed.keys /\ IcdTypeOK'
           /\ \A m \in IcdNodes : icd'[m].key = icd[m].key
           /\ \A m \in IcdNodes : m # n => icd'[m] = icd[m]
           /\ icd[n].key # NoKey
           /\ air' = air \cup {[key |-> icd[n].key, counter |-> icd'[n].counter]}
           /\ icd[n].wrapped => icd'[n].wrapped
           /\ ~ icd'[n].wrapped => icd[n].counter <= icd'[n].counter
<1> DEFINE next == (icd[n].counter + 1) % CounterRange
           wraps == icd[n].wrapped \/ next = 0
           new == [key |-> icd[n].key, counter |-> next, wrapped |-> wraps]
<1>1. /\ icd[n].key # NoKey /\ icdUsed' = [icdUsed EXCEPT !.checkins = @ + 1]
      /\ icd' = [icd EXCEPT ![n] = new]
      /\ air' = air \cup {[key |-> icd[n].key, counter |-> next]}
      /\ UNCHANGED <<reg, regDisk, receipt, icdReq, accepted, replayed, forgot, strayed>>
    BY DEF SendCheckIn, icdHistory
<1>2. /\ icd[n].key \in Nat /\ icd[n].counter \in Nat /\ icd[n].wrapped \in BOOLEAN
      /\ icd[n].counter < CounterRange
    BY DEF IcdTypeOK
<1>3. next \in Nat /\ next < CounterRange /\ (next # 0 => icd[n].counter <= next)
    BY <1>2, NextCounter
<1>w. wraps \in BOOLEAN /\ (icd[n].wrapped => wraps) /\ (~ wraps => next # 0)
    OBVIOUS
<1> HIDE DEF next, wraps
<1>4. /\ new.key = icd[n].key /\ new.counter = next /\ new.wrapped = wraps
      /\ new \in [key : Nat, counter : Nat, wrapped : BOOLEAN]
    BY <1>2, <1>3, <1>w
<1> HIDE DEF new
<1>5. /\ icd'[n] = new /\ \A m \in IcdNodes : m # n => icd'[m] = icd[m]
      /\ icd' \in [IcdNodes -> [key : Nat, counter : Nat, wrapped : BOOLEAN]]
    BY <1>1, <1>4 DEF IcdTypeOK
<1>6. /\ icdUsed' \in [keys : Nat, checkins : Nat, faults : Nat] /\ icdUsed'.keys = icdUsed.keys
    BY SMTT(30), <1>1 DEF IcdTypeOK
<1>7. \A m \in IcdNodes : icd'[m].counter < CounterRange
    BY <1>3, <1>4, <1>5 DEF IcdTypeOK
<1>8. air' \subseteq [key : Nat \ {0}, counter : Nat]
  <2>1. icd[n].key \in Nat \ {0}
    BY <1>1, <1>2 DEF NoKey
  <2>2. [key |-> icd[n].key, counter |-> next] \in [key : Nat \ {0}, counter : Nat]
    BY <1>3, <2>1
  <2> QED
    BY <1>1, <2>2 DEF IcdTypeOK
<1>9. IcdTypeOK'
    BY <1>1, <1>5, <1>6, <1>7, <1>8 DEF IcdTypeOK
<1>10. \A m \in IcdNodes : icd'[m].key = icd[m].key
    BY <1>4, <1>5
<1>11. (icd[n].wrapped => icd'[n].wrapped) /\ (~ icd'[n].wrapped => icd[n].counter <= icd'[n].counter)
    BY <1>3, <1>4, <1>5, <1>w
<1> QED
    BY <1>1, <1>4, <1>5, <1>6, <1>9, <1>10, <1>11

\* A check-in is identified by the key that reads it.
LEMMA IdentifyEffect ==
    ASSUME IcdTypeOK, NEW m \in air, Identify(m)
    PROVE  /\ UNCHANGED <<reg, regDisk, icd, air, icdReq, icdUsed, accepted, replayed, forgot, strayed>>
           /\ receipt = NoReceipt /\ receipt' # NoReceipt
           /\ receipt'.node \in IcdNodes /\ receipt'.key = m.key /\ receipt'.counter = m.counter
           /\ reg[receipt'.node].key = m.key /\ reg[receipt'.node].counter < m.counter
           /\ m.key \in Nat \ {0} /\ m.counter \in Nat
           /\ IcdTypeOK'
<1>1. PICK n \in IcdNodes : /\ reg[n].key = m.key /\ Advances(m, n)
                            /\ receipt' = [node |-> n, key |-> m.key, counter |-> m.counter]
    BY DEF Identify
<1>2. /\ UNCHANGED <<reg, regDisk, icd, air, icdReq, icdUsed, accepted, replayed, forgot, strayed>>
      /\ receipt = NoReceipt
    BY DEF Identify, icdHistory
<1>3. m.key \in Nat \ {0} /\ m.counter \in Nat
    BY DEF IcdTypeOK
<1>4. /\ receipt'.node = n /\ receipt'.key = m.key /\ receipt'.counter = m.counter
      /\ receipt' \in [node : IcdNodes, key : Nat \ {0}, counter : Nat]
    BY <1>1, <1>3
<1>5. receipt' # NoReceipt
    BY <1>3, <1>4 DEF NoReceipt, NoKey
<1>6. reg[n].counter < m.counter
    BY <1>1, <1>3 DEF Advances, NoCounter
<1>7. IcdTypeOK'
    BY <1>2, <1>4 DEF IcdTypeOK
<1> QED
    BY <1>1, <1>2, <1>3, <1>4, <1>5, <1>6, <1>7

\* Its counter is noted for the node, and it is accepted.
LEMMA NoteEffect ==
    ASSUME IcdTypeOK, NoteCounter \/ NoteCounterUnsaved
    PROVE  /\ receipt # NoReceipt /\ receipt' = NoReceipt
           /\ receipt.node \in IcdNodes /\ receipt.key \in Nat \ {0} /\ receipt.counter \in Nat
           /\ UNCHANGED <<icd, air, icdReq, forgot, strayed>> /\ icdUsed'.keys = icdUsed.keys
           /\ \A n \in IcdNodes : reg'[n].key = reg[n].key
           /\ \A n \in IcdNodes : n # receipt.node => reg'[n] = reg[n]
           /\ reg'[receipt.node].counter = IF reg[receipt.node].key = NoKey
                                           THEN reg[receipt.node].counter ELSE receipt.counter
           /\ regDisk' \in {reg', regDisk}
           /\ accepted' = accepted \cup {[key |-> receipt.key, counter |-> receipt.counter]}
           /\ replayed' = (replayed \/ [key |-> receipt.key, counter |-> receipt.counter] \in accepted)
           /\ IcdTypeOK'
<1> DEFINE n == receipt.node
<1>1. /\ receipt # NoReceipt /\ receipt' = NoReceipt
      /\ reg' = Noted(n, receipt.counter) /\ regDisk' \in {reg', regDisk}
      /\ accepted' = accepted \cup {[key |-> receipt.key, counter |-> receipt.counter]}
      /\ replayed' = (replayed \/ [key |-> receipt.key, counter |-> receipt.counter] \in accepted)
      /\ UNCHANGED <<icd, air, icdReq, forgot, strayed>>
    BY DEF NoteCounter, NoteCounterUnsaved, Accepted
<1>2. n \in IcdNodes /\ receipt.key \in Nat \ {0} /\ receipt.counter \in Nat
    BY <1>1 DEF IcdTypeOK
<1>3. /\ icdUsed' \in [keys : Nat, checkins : Nat, faults : Nat] /\ icdUsed'.keys = icdUsed.keys
    BY DEF NoteCounter, NoteCounterUnsaved, IcdFault, IcdTypeOK
<1> HIDE DEF n
<1>4. /\ reg' \in [IcdNodes -> [key : Nat, counter : Nat \cup {NoCounter}]]
      /\ \A o \in IcdNodes : reg'[o].key = reg[o].key
      /\ \A o \in IcdNodes : o # n => reg'[o] = reg[o]
      /\ reg'[n].counter = IF reg[n].key = NoKey THEN reg[n].counter ELSE receipt.counter
    BY <1>1, <1>2 DEF Noted, IcdTypeOK
<1>5. accepted' \subseteq [key : Nat \ {0}, counter : Nat]
    BY <1>1, <1>2 DEF IcdTypeOK
<1>6. replayed' \in BOOLEAN
    BY <1>1
<1>7. IcdTypeOK'
    BY <1>1, <1>3, <1>4, <1>5, <1>6 DEF IcdTypeOK
<1> QED
    BY <1>1, <1>2, <1>3, <1>4, <1>7 DEF n

\* A kill, and the start after it.
LEMMA KillEffect ==
    ASSUME IcdTypeOK, IcdKill
    PROVE  /\ UNCHANGED <<regDisk, icd, air, accepted, replayed>> /\ icdUsed'.keys = icdUsed.keys
           /\ reg' = regDisk /\ receipt' = NoReceipt
           /\ \A c \in IcdConns : icdReq'[c].at = "idle"
           /\ forgot' = (forgot \/ Outdated)
           /\ strayed' = {n \in IcdNodes : n \in strayed \/ Busy(n) # {} \/ reg[n].key # regDisk[n].key}
           /\ IcdTypeOK'
<1>1. /\ UNCHANGED <<regDisk, icd, air, accepted, replayed>>
      /\ reg' = regDisk /\ receipt' = NoReceipt /\ icdReq' = [c \in IcdConns |-> IcdIdle]
      /\ icdUsed' = [icdUsed EXCEPT !.faults = @ + 1]
      /\ forgot' = (forgot \/ Outdated)
      /\ strayed' = {n \in IcdNodes : n \in strayed \/ Busy(n) # {} \/ reg[n].key # regDisk[n].key}
    BY DEF IcdKill, IcdFault
<1>2. /\ icdUsed' \in [keys : Nat, checkins : Nat, faults : Nat] /\ icdUsed'.keys = icdUsed.keys
    BY <1>1 DEF IcdTypeOK
<1>3. /\ icdReq' \in [IcdConns -> [at : {"idle", "register", "store", "drop"},
                                   node : IcdNodes \cup {"none"}, key : Nat]]
      /\ \A c \in IcdConns : icdReq'[c].at = "idle"
    BY <1>1 DEF IcdIdle, NoKey
<1>4. forgot' \in BOOLEAN
    BY <1>1
<1>5. IcdTypeOK'
    BY <1>1, <1>2, <1>3, <1>4 DEF IcdTypeOK
<1> QED
    BY <1>1, <1>2, <1>3, <1>5

-----------------------------------------------------------------------------
(* Keys.                                                                   *)

\* No node comes to use a key that it did not use.
Shrinks == \A n \in IcdNodes, k \in Nat : Uses(n, k)' => Uses(n, k)

LEMMA OwnerKept ==
    ASSUME IcdTypeOK, IcdTypeOK', OwnerInv, icdUsed'.keys = icdUsed.keys,
           \A n \in IcdNodes : reg'[n].key # NoKey => Uses(n, reg'[n].key),
           \A n \in IcdNodes : regDisk'[n].key # NoKey => Uses(n, regDisk'[n].key),
           \A n \in IcdNodes : icd'[n].key # NoKey => Uses(n, icd'[n].key),
           receipt' # NoReceipt => Uses(receipt'.node, receipt'.key),
           \A c \in IcdConns : Pending(c)' => Uses(icdReq'[c].node, icdReq'[c].key),
           \A m \in air' : m.key <= icdUsed.keys,
           \A a \in accepted' : a.key <= icdUsed.keys
    PROVE  OwnerInv' /\ Shrinks
<1>1. Shrinks
  <2> SUFFICES ASSUME NEW n \in IcdNodes, NEW k \in Nat, Uses(n, k)' PROVE Uses(n, k)
    BY DEF Shrinks
  <2>1. \/ reg'[n].key = k \/ regDisk'[n].key = k \/ icd'[n].key = k
        \/ receipt' # NoReceipt /\ receipt'.node = n /\ receipt'.key = k
        \/ \E c \in IcdConns : Pending(c)' /\ icdReq'[c].node = n /\ icdReq'[c].key = k
    BY DEF Uses, NoReceipt
  <2>2. k # NoKey
    BY DEF Uses, NoKey
  <2> QED
    BY <2>1, <2>2
<1>2. OwnerInv'
    BY <1>1 DEF OwnerInv, Shrinks
<1> QED
    BY <1>1, <1>2

\* What the node of a registration, of a receipt and of a request uses.
LEMMA UsesIts ==
    ASSUME IcdTypeOK
    PROVE  /\ \A n \in IcdNodes : reg[n].key # NoKey => Uses(n, reg[n].key)
           /\ \A n \in IcdNodes : regDisk[n].key # NoKey => Uses(n, regDisk[n].key)
           /\ \A n \in IcdNodes : icd[n].key # NoKey => Uses(n, icd[n].key)
           /\ receipt # NoReceipt => Uses(receipt.node, receipt.key)
           /\ \A c \in IcdConns : Pending(c) => Uses(icdReq[c].node, icdReq[c].key)
<1>1. receipt # NoReceipt => receipt.key # NoKey
    BY DEF IcdTypeOK, NoKey
<1>2. \A c \in IcdConns : Pending(c) => icdReq[c].key # NoKey
    BY DEF IcdTypeOK, Pending
<1> QED
    BY <1>1, <1>2 DEF Uses

\* Every step but the generation of a key leaves the keys with their nodes.
LEMMA OwnerStep ==
    ASSUME IcdTypeOK, OwnerInv,
           \/ \E c \in IcdConns : \/ \E n \in IcdNodes : \/ \E force \in BOOLEAN : Unregister(c, n, force)
                                                        \/ Resync(c, n)
                                  \/ RegisterRefused(c) \/ RegisterAccepted(c)
                                  \/ RegisterUnanswered(c) \/ StoreKey(c) \/ StoreKeyUnsaved(c)
                                  \/ DropAnswered(c) \/ DropFailed(c)
           \/ \E n \in IcdNodes : SendCheckIn(n)
           \/ \E m \in air : Identify(m)
           \/ NoteCounter \/ NoteCounterUnsaved \/ IcdKill
    PROVE  OwnerInv' /\ Shrinks
<1>k. /\ \A n \in IcdNodes : /\ reg[n].key \in Nat /\ regDisk[n].key \in Nat
                             /\ icd[n].key \in Nat
      /\ \A m \in air : m.key <= icdUsed.keys
      /\ \A a \in accepted : a.key <= icdUsed.keys
      /\ \A n \in IcdNodes, k \in Nat : Uses(n, k) => k <= icdUsed.keys
    BY DEF IcdTypeOK, OwnerInv
<1>1. ASSUME NEW c \in IcdConns, NEW n \in IcdNodes, Unregister(c, n, FALSE) \/ Resync(c, n)
      PROVE  OwnerInv' /\ Shrinks
  <2>1. /\ icdReq'[c].at \in {"drop", "register"}
        /\ \A d \in IcdConns : d # c => icdReq'[d] = icdReq[d]
        /\ UNCHANGED <<icd, air, receipt, accepted>> /\ IcdTypeOK'
    BY <1>1, BeginEffect
  <2>2. /\ icdReq' = [icdReq EXCEPT ![c] = [at |-> "drop", node |-> n, key |-> NoKey]]
        /\ \/ UNCHANGED <<reg, regDisk>>
           \/ reg' = [reg EXCEPT ![n] = Unregistered] /\ regDisk' \in {reg', regDisk}
    BY <1>1 DEF Unregister, ForgetKey, Resync
  <2>3. \A o \in IcdNodes : /\ reg'[o].key \in {NoKey, reg[o].key}
                            /\ regDisk'[o].key \in {NoKey, reg[o].key, regDisk[o].key}
    <3>1. CASE UNCHANGED <<reg, regDisk>>
      BY <3>1
    <3>2. CASE reg' = [reg EXCEPT ![n] = Unregistered] /\ regDisk' \in {reg', regDisk}
      BY <3>2, RemovedIs
    <3> QED
      BY <2>2, <3>1, <3>2
  <2>4. icdReq'[c].at = "drop"
    BY <2>2 DEF IcdTypeOK
  <2>5. \A d \in IcdConns : Pending(d)' => Pending(d) /\ icdReq'[d] = icdReq[d]
    BY <2>1, <2>4 DEF Pending
  <2>6. icdUsed'.keys = icdUsed.keys
    BY <1>1, <2>4, BeginEffect
  <2> QED
    BY <1>k, <2>1, <2>2, <2>3, <2>5, <2>6, UsesIts, OwnerKept
<1>2. ASSUME NEW c \in IcdConns, NEW n \in IcdNodes, Unregister(c, n, TRUE)
      PROVE  OwnerInv' /\ Shrinks
  <2>1. /\ UNCHANGED <<icdReq, icd, air, receipt, accepted>> /\ IcdTypeOK'
        /\ icdUsed'.keys = icdUsed.keys
        /\ reg' = [reg EXCEPT ![n] = Unregistered] /\ regDisk' \in {reg', regDisk}
    BY <1>2, ForceEffect
  <2>2. \A o \in IcdNodes : reg'[o].key \in {NoKey, reg[o].key}
    BY <2>1, RemovedIs
  <2>3. \A d \in IcdConns : Pending(d)' => Pending(d) /\ icdReq'[d] = icdReq[d]
    BY <2>1 DEF Pending
  <2> QED
    BY <1>k, <2>1, <2>2, <2>3, UsesIts, OwnerKept
<1>3. ASSUME NEW c \in IcdConns,
             RegisterRefused(c) \/ RegisterUnanswered(c) \/ DropAnswered(c) \/ DropFailed(c)
      PROVE  OwnerInv' /\ Shrinks
  <2> DEFINE n == icdReq[c].node
  <2>1. /\ icdReq'[c].at = "idle" /\ \A d \in IcdConns : d # c => icdReq'[d] = icdReq[d]
        /\ UNCHANGED <<reg, regDisk, air, receipt, accepted>>
        /\ icdUsed'.keys = icdUsed.keys /\ IcdTypeOK'
        /\ \A m \in IcdNodes : m # n => icd'[m].key = icd[m].key
        /\ \/ icd'[n].key \in {NoKey, icd[n].key}
           \/ icdReq[c].at = "register" /\ icd'[n].key = icdReq[c].key
    BY <1>3, EndEffect
  <2>2. \A d \in IcdConns : Pending(d)' => Pending(d) /\ icdReq'[d] = icdReq[d]
    BY <2>1 DEF Pending
  <2>3. \A m \in IcdNodes : icd'[m].key # NoKey => Uses(m, icd'[m].key)
    BY <2>1, UsesIts DEF Pending
  <2> QED
    BY <1>k, <2>1, <2>2, <2>3, UsesIts, OwnerKept
<1>4. ASSUME NEW c \in IcdConns, RegisterAccepted(c) PROVE OwnerInv' /\ Shrinks
  <2>1. Pending(c) /\ icdReq'[c].node = icdReq[c].node /\ icdReq'[c].key = icdReq[c].key
    BY <1>4, TakesEffect DEF Pending
  <2>2. \A m \in IcdNodes : icd'[m].key # NoKey => Uses(m, icd'[m].key)
    BY <1>4, <2>1, TakesEffect, UsesIts
  <2>3. \A d \in IcdConns : Pending(d)' => /\ Pending(d) /\ icdReq'[d].node = icdReq[d].node
                                           /\ icdReq'[d].key = icdReq[d].key
    BY <1>4, <2>1, TakesEffect DEF Pending
  <2>4. UNCHANGED <<reg, regDisk, air, receipt, icdUsed, accepted>> /\ IcdTypeOK'
    BY <1>4, TakesEffect
  <2> QED
    BY <1>k, <2>2, <2>3, <2>4, UsesIts, OwnerKept
<1>5. ASSUME NEW c \in IcdConns, StoreKey(c) \/ StoreKeyUnsaved(c) PROVE OwnerInv' /\ Shrinks
  <2>1. Pending(c)
    BY <1>5, StoreEffect DEF Pending
  <2>2. \A m \in IcdNodes : reg'[m].key # NoKey => Uses(m, reg'[m].key)
    BY <1>5, <2>1, StoreEffect, UsesIts
  <2>3. \A d \in IcdConns : Pending(d)' => Pending(d) /\ icdReq'[d] = icdReq[d]
    BY <1>5, StoreEffect DEF Pending
  <2>4. /\ UNCHANGED <<icd, air, receipt, accepted>> /\ icdUsed'.keys = icdUsed.keys /\ IcdTypeOK'
        /\ regDisk' \in {reg', regDisk}
    BY <1>5, StoreEffect
  <2> QED
    BY <1>k, <2>2, <2>3, <2>4, UsesIts, OwnerKept
<1>6. ASSUME NEW n \in IcdNodes, SendCheckIn(n) PROVE OwnerInv' /\ Shrinks
  <2>1. \A d \in IcdConns : Pending(d)' => Pending(d) /\ icdReq'[d] = icdReq[d]
    BY <1>6, SendEffect DEF Pending
  <2>2. \A m \in air' : m.key <= icdUsed.keys
    BY <1>k, <1>6, SendEffect, UsesIts
  <2>3. /\ UNCHANGED <<reg, regDisk, receipt, accepted>> /\ icdUsed'.keys = icdUsed.keys
        /\ IcdTypeOK' /\ \A m \in IcdNodes : icd'[m].key = icd[m].key
    BY <1>6, SendEffect
  <2> QED
    BY <1>k, <2>1, <2>2, <2>3, UsesIts, OwnerKept
<1>7. ASSUME NEW m \in air, Identify(m) PROVE OwnerInv' /\ Shrinks
  <2>1. \A d \in IcdConns : Pending(d)' => Pending(d) /\ icdReq'[d] = icdReq[d]
    BY <1>7, IdentifyEffect DEF Pending
  <2>2. Uses(receipt'.node, receipt'.key)
    BY <1>7, IdentifyEffect, UsesIts DEF NoKey
  <2>3. UNCHANGED <<reg, regDisk, icd, air, icdUsed, accepted>> /\ IcdTypeOK'
    BY <1>7, IdentifyEffect
  <2> QED
    BY <1>k, <2>1, <2>2, <2>3, UsesIts, OwnerKept
<1>8. CASE NoteCounter \/ NoteCounterUnsaved
  <2>1. \A d \in IcdConns : Pending(d)' => Pending(d) /\ icdReq'[d] = icdReq[d]
    BY <1>8, NoteEffect DEF Pending
  <2>2. \A a \in accepted' : a.key <= icdUsed.keys
    <3>1. receipt.key <= icdUsed.keys
      BY <1>k, <1>8, NoteEffect, UsesIts
    <3> QED
      BY <1>k, <1>8, <3>1, NoteEffect
  <2>3. /\ UNCHANGED <<icd, air>> /\ receipt' = NoReceipt /\ icdUsed'.keys = icdUsed.keys
        /\ IcdTypeOK' /\ \A m \in IcdNodes : reg'[m].key = reg[m].key
        /\ regDisk' \in {reg', regDisk}
    BY <1>8, NoteEffect
  <2> QED
    BY <1>k, <2>1, <2>2, <2>3, UsesIts, OwnerKept
<1>9. CASE IcdKill
  <2>1. \A d \in IcdConns : ~ Pending(d)'
    BY <1>9, KillEffect DEF Pending
  <2>2. /\ UNCHANGED <<icd, air, regDisk, accepted>> /\ receipt' = NoReceipt
        /\ icdUsed'.keys = icdUsed.keys /\ IcdTypeOK' /\ reg' = regDisk
    BY <1>9, KillEffect
  <2> QED
    BY <1>k, <2>1, <2>2, UsesIts, OwnerKept
<1> QED
    BY <1>1, <1>2, <1>3, <1>4, <1>5, <1>6, <1>7, <1>8, <1>9

\* A generated key is new.
LEMMA RegisterKeys ==
    ASSUME IcdTypeOK, OwnerInv, PendingInv, NEW c \in IcdConns, NEW n \in IcdNodes,
           \E allow \in BOOLEAN, ignored \in SUBSET Vendors[n] : Register(c, n, allow, ignored)
    PROVE  /\ OwnerInv' /\ PendingInv'
           /\ \A o \in IcdNodes, k \in Nat :
                 Uses(o, k)' => Uses(o, k) \/ (o = n /\ k = icdUsed.keys + 1)
           /\ icdReq'[c].at = "register" /\ icdUsed.keys \in Nat
           /\ \A m \in air : m.key # icdUsed.keys + 1
<1>1. /\ icdReq' = [icdReq EXCEPT ![c] = [at |-> "register", node |-> n, key |-> icdUsed.keys + 1]]
      /\ icdUsed' = [icdUsed EXCEPT !.keys = @ + 1]
      /\ UNCHANGED <<reg, regDisk, icd, air, receipt, accepted>>
    BY DEF Register
<1>2. /\ icdReq'[c].at = "register" /\ icdReq'[c].node = n /\ icdReq'[c].key = icdUsed.keys + 1
      /\ \A d \in IcdConns : d # c => icdReq'[d] = icdReq[d]
      /\ icdUsed.keys \in Nat /\ icdUsed'.keys = icdUsed.keys + 1
    BY <1>1 DEF IcdTypeOK
<1>3. ASSUME NEW o \in IcdNodes, NEW k \in Nat, Uses(o, k)'
      PROVE  Uses(o, k) \/ (o = n /\ k = icdUsed.keys + 1)
  <2>1. \/ reg[o].key = k \/ regDisk[o].key = k \/ icd[o].key = k
        \/ receipt # NoReceipt /\ receipt.node = o /\ receipt.key = k
        \/ \E d \in IcdConns : Pending(d)' /\ icdReq'[d].node = o /\ icdReq'[d].key = k
    BY <1>1, <1>3 DEF Uses, NoReceipt
  <2>2. \A d \in IcdConns : Pending(d)' =>
            d = c \/ (Pending(d) /\ icdReq'[d] = icdReq[d])
    BY <1>2 DEF Pending
  <2>3. k # NoKey
    BY <1>3 DEF Uses, NoKey
  <2> QED
    BY <1>2, <2>1, <2>2, <2>3 DEF Uses
<1>4. /\ \A o \in IcdNodes : reg[o].key <= icdUsed.keys /\ regDisk[o].key <= icdUsed.keys
      /\ receipt # NoReceipt => receipt.key <= icdUsed.keys
      /\ \A d \in IcdConns : Pending(d) => icdReq[d].key <= icdUsed.keys
      /\ \A a \in accepted : a.key <= icdUsed.keys
      /\ \A m \in air : m.key <= icdUsed.keys
  <2>1. \A o \in IcdNodes, k \in Nat : Uses(o, k) => k <= icdUsed.keys
    BY DEF OwnerInv
  <2>2. \A o \in IcdNodes : reg[o].key \in Nat /\ regDisk[o].key \in Nat
    BY DEF IcdTypeOK
  <2>3. receipt # NoReceipt => receipt.key \in Nat /\ receipt.node \in IcdNodes
    BY DEF IcdTypeOK
  <2>4. \A d \in IcdConns : Pending(d) => icdReq[d].key \in Nat /\ icdReq[d].node \in IcdNodes
    BY DEF IcdTypeOK, Pending
  <2>5. \A o \in IcdNodes : reg[o].key <= icdUsed.keys /\ regDisk[o].key <= icdUsed.keys
    BY <1>2, <2>1, <2>2, UsesIts DEF NoKey
  <2> QED
    BY <2>1, <2>3, <2>4, <2>5, UsesIts DEF OwnerInv
<1>5. \A o \in IcdNodes, k \in Nat : Uses(o, k)' => k <= icdUsed.keys + 1
    BY <1>2, <1>3 DEF OwnerInv
<1>6. ASSUME NEW o \in IcdNodes, NEW p \in IcdNodes, NEW k \in Nat, Uses(o, k)', Uses(p, k)'
      PROVE  o = p
  <2>1. \A q \in IcdNodes : ~ Uses(q, icdUsed.keys + 1)
    BY <1>2 DEF OwnerInv
  <2>2. CASE k = icdUsed.keys + 1
    BY <1>3, <1>6, <2>1, <2>2
  <2>3. CASE k # icdUsed.keys + 1
    BY <1>3, <1>6, <2>3 DEF OwnerInv
  <2> QED
    BY <2>2, <2>3
<1>7. /\ \A m \in air : m.key <= icdUsed.keys + 1 /\ m.key # icdUsed.keys + 1
      /\ \A a \in accepted : a.key <= icdUsed.keys + 1 /\ a.key # icdUsed.keys + 1
  <2>1. (\A m \in air : m.key \in Nat) /\ (\A a \in accepted : a.key \in Nat)
    BY DEF IcdTypeOK
  <2> QED
    BY <1>2, <1>4, <2>1
<1>8. OwnerInv'
    BY <1>1, <1>2, <1>5, <1>6, <1>7 DEF OwnerInv
<1>9. /\ \A o \in IcdNodes : reg[o].key # icdUsed.keys + 1 /\ regDisk[o].key # icdUsed.keys + 1
      /\ receipt # NoReceipt => receipt.key # icdUsed.keys + 1
      /\ \A d \in IcdConns : Pending(d) => icdReq[d].key # icdUsed.keys + 1
  <2>1. \A x \in Nat : x <= icdUsed.keys => x # icdUsed.keys + 1
    BY <1>2
  <2>2. \A o \in IcdNodes : reg[o].key \in Nat /\ regDisk[o].key \in Nat
    BY DEF IcdTypeOK
  <2>3. receipt # NoReceipt => receipt.key \in Nat
    BY DEF IcdTypeOK
  <2>4. \A d \in IcdConns : icdReq[d].key \in Nat
    BY DEF IcdTypeOK
  <2> QED
    BY <1>4, <2>1, <2>2, <2>3, <2>4
<1>10. PendingInv'
  <2> SUFFICES ASSUME NEW e \in IcdConns, Pending(e)'
               PROVE  /\ \A o \in IcdNodes : reg[o].key # icdReq'[e].key /\ regDisk[o].key # icdReq'[e].key
                      /\ receipt # NoReceipt => receipt.key # icdReq'[e].key
                      /\ \A a \in accepted : a.key # icdReq'[e].key
                      /\ \A d \in IcdConns : Pending(d)' /\ icdReq'[d].key = icdReq'[e].key => d = e
    BY <1>1 DEF PendingInv, NoReceipt
  <2>1. \A d \in IcdConns : d # c /\ Pending(d)' => Pending(d) /\ icdReq'[d] = icdReq[d]
    BY <1>2 DEF Pending
  <2>2. CASE e = c
    BY <1>2, <1>7, <1>9, <2>1, <2>2
  <2>3. CASE e # c
    <3>1. Pending(e) /\ icdReq'[e] = icdReq[e]
      BY <2>1, <2>3
    <3>2. \A d \in IcdConns : Pending(d)' /\ icdReq'[d].key = icdReq[e].key => d # c
      BY <1>2, <1>9, <3>1
    <3> QED
      BY <2>1, <3>1, <3>2 DEF PendingInv
  <2> QED
    BY <2>2, <2>3
<1> QED
    BY <1>2, <1>3, <1>7, <1>8, <1>10

\* No other step brings a key that is not stored yet anywhere but into the
\* store.
LEMMA PendingStep ==
    ASSUME IcdTypeOK, OwnerInv, PendingInv,
           \/ \E c \in IcdConns : \/ \E n \in IcdNodes : \/ \E force \in BOOLEAN : Unregister(c, n, force)
                                                        \/ Resync(c, n)
                                  \/ RegisterRefused(c) \/ RegisterAccepted(c)
                                  \/ RegisterUnanswered(c) \/ StoreKey(c) \/ StoreKeyUnsaved(c)
                                  \/ DropAnswered(c) \/ DropFailed(c)
           \/ \E n \in IcdNodes : SendCheckIn(n)
           \/ \E m \in air : Identify(m)
           \/ NoteCounter \/ NoteCounterUnsaved \/ IcdKill
    PROVE  PendingInv'
<1>0. \A c \in IcdConns : Pending(c) => icdReq[c].key # NoKey
    BY DEF IcdTypeOK, Pending
<1>k. ASSUME \A d \in IcdConns : Pending(d)' => Pending(d) /\ icdReq'[d].key = icdReq[d].key,
             \A d \in IcdConns : Pending(d)' =>
                /\ \A n \in IcdNodes : reg'[n].key # icdReq[d].key /\ regDisk'[n].key # icdReq[d].key
                /\ receipt' # NoReceipt => receipt'.key # icdReq[d].key
                /\ \A a \in accepted' : a.key # icdReq[d].key
      PROVE  PendingInv'
  <2>1. \A d, e \in IcdConns : Pending(d) /\ Pending(e) /\ icdReq[d].key = icdReq[e].key => d = e
    BY DEF PendingInv
  <2> QED
    BY <1>k, <2>1 DEF PendingInv, NoReceipt
<1>1. ASSUME NEW c \in IcdConns, NEW n \in IcdNodes, Unregister(c, n, FALSE) \/ Resync(c, n)
      PROVE  PendingInv'
  <2>1. /\ \A d \in IcdConns : d # c => icdReq'[d] = icdReq[d]
        /\ UNCHANGED <<receipt, accepted>>
    BY <1>1, BeginEffect
  <2>2. /\ icdReq' = [icdReq EXCEPT ![c] = [at |-> "drop", node |-> n, key |-> NoKey]]
        /\ \/ UNCHANGED <<reg, regDisk>>
           \/ reg' = [reg EXCEPT ![n] = Unregistered] /\ regDisk' \in {reg', regDisk}
    BY <1>1 DEF Unregister, ForgetKey, Resync
  <2>3. \A o \in IcdNodes : /\ reg'[o].key \in {NoKey, reg[o].key}
                            /\ regDisk'[o].key \in {NoKey, reg[o].key, regDisk[o].key}
    <3>1. CASE UNCHANGED <<reg, regDisk>>
      BY <3>1
    <3>2. CASE reg' = [reg EXCEPT ![n] = Unregistered] /\ regDisk' \in {reg', regDisk}
      BY <3>2, RemovedIs
    <3> QED
      BY <2>2, <3>1, <3>2
  <2>4. icdReq'[c].at = "drop"
    BY <2>2 DEF IcdTypeOK
  <2>5. \A d \in IcdConns : Pending(d)' => Pending(d) /\ icdReq'[d] = icdReq[d]
    BY <2>1, <2>4 DEF Pending
  <2> QED
    BY <1>0, <1>k, <2>1, <2>3, <2>5 DEF PendingInv
<1>2. ASSUME NEW c \in IcdConns, NEW n \in IcdNodes, Unregister(c, n, TRUE) PROVE PendingInv'
  <2>1. UNCHANGED <<icdReq, receipt, accepted>> /\ regDisk' \in {reg', regDisk}
    BY <1>2, ForceEffect
  <2>2. \A o \in IcdNodes : reg'[o].key \in {NoKey, reg[o].key}
    BY <1>2, ForceEffect, RemovedIs
  <2>3. \A d \in IcdConns : Pending(d)' => Pending(d) /\ icdReq'[d] = icdReq[d]
    BY <2>1 DEF Pending
  <2> QED
    BY <1>0, <1>k, <2>1, <2>2, <2>3 DEF PendingInv
<1>3. ASSUME NEW c \in IcdConns,
             RegisterRefused(c) \/ RegisterUnanswered(c) \/ DropAnswered(c) \/ DropFailed(c)
      PROVE  PendingInv'
  <2>1. /\ icdReq'[c].at = "idle" /\ \A d \in IcdConns : d # c => icdReq'[d] = icdReq[d]
        /\ UNCHANGED <<reg, regDisk, receipt, accepted>>
    BY <1>3, EndEffect
  <2>2. \A d \in IcdConns : Pending(d)' => Pending(d) /\ icdReq'[d] = icdReq[d]
    BY <2>1 DEF Pending
  <2> QED
    BY <1>k, <2>1, <2>2 DEF PendingInv
<1>4. ASSUME NEW c \in IcdConns, RegisterAccepted(c) PROVE PendingInv'
  <2>1. \A d \in IcdConns : Pending(d)' => Pending(d) /\ icdReq'[d].key = icdReq[d].key
    BY <1>4, TakesEffect DEF Pending
  <2>2. UNCHANGED <<reg, regDisk, receipt, accepted>>
    BY <1>4, TakesEffect
  <2> QED
    BY <1>k, <2>1, <2>2 DEF PendingInv
<1>5. ASSUME NEW c \in IcdConns, StoreKey(c) \/ StoreKeyUnsaved(c) PROVE PendingInv'
  <2>1. Pending(c) /\ ~ Pending(c)'
    BY <1>5, StoreEffect DEF Pending
  <2>2. \A d \in IcdConns : Pending(d)' => Pending(d) /\ icdReq'[d] = icdReq[d]
    BY <1>5, StoreEffect DEF Pending
  <2>3. UNCHANGED <<receipt, accepted>> /\ regDisk' \in {reg', regDisk}
    BY <1>5, StoreEffect
  <2>4. \A d \in IcdConns : Pending(d)' => icdReq[d].key # icdReq[c].key
    BY <2>1, <2>2 DEF PendingInv
  <2>5. \A m \in IcdNodes : reg'[m].key \in {reg[m].key, icdReq[c].key}
    BY <1>5, StoreEffect
  <2> QED
    BY <1>k, <2>2, <2>3, <2>4, <2>5 DEF PendingInv
<1>6. ASSUME NEW n \in IcdNodes, SendCheckIn(n) PROVE PendingInv'
  <2>1. UNCHANGED <<reg, regDisk, icdReq, receipt, accepted>>
    BY <1>6, SendEffect
  <2>2. \A d \in IcdConns : Pending(d)' => Pending(d) /\ icdReq'[d] = icdReq[d]
    BY <2>1 DEF Pending
  <2> QED
    BY <1>k, <2>1, <2>2 DEF PendingInv
<1>7. ASSUME NEW m \in air, Identify(m) PROVE PendingInv'
  <2>1. /\ UNCHANGED <<reg, regDisk, icdReq, accepted>>
        /\ receipt'.node \in IcdNodes /\ receipt'.key = reg[receipt'.node].key
    BY <1>7, IdentifyEffect
  <2>2. \A d \in IcdConns : Pending(d)' => Pending(d) /\ icdReq'[d] = icdReq[d]
    BY <2>1 DEF Pending
  <2> QED
    BY <1>k, <2>1, <2>2 DEF PendingInv
<1>8. CASE NoteCounter \/ NoteCounterUnsaved
  <2>1. /\ receipt # NoReceipt /\ receipt' = NoReceipt /\ icdReq' = icdReq
        /\ \A n \in IcdNodes : reg'[n].key = reg[n].key
        /\ regDisk' \in {reg', regDisk}
        /\ accepted' = accepted \cup {[key |-> receipt.key, counter |-> receipt.counter]}
    BY <1>8, NoteEffect
  <2>2. \A d \in IcdConns : Pending(d)' => Pending(d) /\ icdReq'[d] = icdReq[d]
    BY <2>1 DEF Pending
  <2>3. \A d \in IcdConns : Pending(d) => \A a \in accepted' : a.key # icdReq[d].key
    BY <2>1 DEF PendingInv
  <2> QED
    BY <1>k, <2>1, <2>2, <2>3 DEF PendingInv
<1>9. CASE IcdKill
  <2>1. \A d \in IcdConns : ~ Pending(d)'
    BY <1>9, KillEffect DEF Pending
  <2> QED
    BY <1>k, <2>1
<1> QED
    BY <1>1, <1>2, <1>3, <1>4, <1>5, <1>6, <1>7, <1>8, <1>9

-----------------------------------------------------------------------------
(* Counters.                                                               *)

LEMMA FreshKept ==
    ASSUME IcdTypeOK, IcdTypeOK', FreshInv, air' = air,
           \A n \in IcdNodes, m \in air : Uses(n, m.key)' => Uses(n, m.key),
           \A n \in IcdNodes : icd'[n].counter = icd[n].counter /\ icd'[n].wrapped = icd[n].wrapped,
           \A n \in IcdNodes : \/ reg'[n].counter \in {NoCounter, reg[n].counter, regDisk[n].counter}
                               \/ /\ receipt # NoReceipt /\ receipt.node = n
                                  /\ reg'[n].counter = receipt.counter,
           regDisk' \in {reg', regDisk}, receipt' \in {receipt, NoReceipt}
    PROVE  FreshInv'
<1> SUFFICES ASSUME NEW n \in IcdNodes, ~ icd[n].wrapped
             PROVE  /\ reg'[n].counter <= icd[n].counter /\ regDisk'[n].counter <= icd[n].counter
                    /\ receipt' # NoReceipt /\ receipt'.node = n => receipt'.counter <= icd[n].counter
                    /\ \A m \in air : Uses(n, m.key)' => m.counter <= icd[n].counter
    BY DEF FreshInv, NoReceipt
<1>1. /\ reg[n].counter <= icd[n].counter /\ regDisk[n].counter <= icd[n].counter
      /\ receipt # NoReceipt /\ receipt.node = n => receipt.counter <= icd[n].counter
      /\ \A m \in air : Uses(n, m.key) => m.counter <= icd[n].counter
    BY DEF FreshInv
<1>2. NoCounter <= icd[n].counter
    BY DEF IcdTypeOK, NoCounter
<1>3. reg'[n].counter <= icd[n].counter
    BY <1>1, <1>2
<1> QED
    BY <1>1, <1>3

LEMMA FreshStep ==
    ASSUME IcdTypeOK, OwnerInv, PendingInv, FreshInv, IcdNext PROVE FreshInv'
<1>a. \A m \in air : m.key \in Nat \ {0}
    BY DEF IcdTypeOK
<1>1. ASSUME NEW c \in IcdConns, NEW n \in IcdNodes,
             \E allow \in BOOLEAN, ignored \in SUBSET Vendors[n] : Register(c, n, allow, ignored)
      PROVE  FreshInv'
  <2>1. UNCHANGED <<reg, regDisk, icd, air, receipt>>
    BY <1>1 DEF Register
  <2>2. IcdTypeOK'
    BY <1>1, BeginEffect
  <2>3. \A o \in IcdNodes, m \in air : Uses(o, m.key)' => Uses(o, m.key)
    BY <1>a, <1>1, RegisterKeys
  <2> QED
    BY <2>1, <2>2, <2>3, FreshKept
<1>2. ASSUME NEW c \in IcdConns, NEW n \in IcdNodes, Unregister(c, n, FALSE) \/ Resync(c, n)
      PROVE  FreshInv'
  <2>1. UNCHANGED <<icd, air, receipt>> /\ IcdTypeOK'
    BY <1>2, BeginEffect
  <2>2. \/ UNCHANGED <<reg, regDisk>>
        \/ reg' = [reg EXCEPT ![n] = Unregistered] /\ regDisk' \in {reg', regDisk}
    BY <1>2 DEF Unregister, ForgetKey, Resync
  <2>3. /\ \A o \in IcdNodes : reg'[o].counter \in {NoCounter, reg[o].counter}
        /\ regDisk' \in {reg', regDisk}
    <3>1. CASE UNCHANGED <<reg, regDisk>>
      BY <3>1
    <3>2. CASE reg' = [reg EXCEPT ![n] = Unregistered] /\ regDisk' \in {reg', regDisk}
      BY <3>2, RemovedIs
    <3> QED
      BY <2>2, <3>1, <3>2
  <2>4. \A o \in IcdNodes, m \in air : Uses(o, m.key)' => Uses(o, m.key)
    BY <1>a, <1>2, OwnerStep DEF Shrinks
  <2> QED
    BY <2>1, <2>3, <2>4, FreshKept
<1>3. ASSUME NEW c \in IcdConns, NEW n \in IcdNodes, Unregister(c, n, TRUE) PROVE FreshInv'
  <2>1. UNCHANGED <<icd, air, receipt>> /\ IcdTypeOK' /\ regDisk' \in {reg', regDisk}
    BY <1>3, ForceEffect
  <2>2. \A o \in IcdNodes : reg'[o].counter \in {NoCounter, reg[o].counter}
    BY <1>3, ForceEffect, RemovedIs
  <2>3. \A o \in IcdNodes, m \in air : Uses(o, m.key)' => Uses(o, m.key)
    BY <1>a, <1>3, OwnerStep DEF Shrinks
  <2> QED
    BY <2>1, <2>2, <2>3, FreshKept
<1>4. ASSUME NEW c \in IcdConns,
             \/ RegisterRefused(c) \/ RegisterUnanswered(c) \/ DropAnswered(c) \/ DropFailed(c)
             \/ RegisterAccepted(c)
      PROVE  FreshInv'
  <2>1. /\ UNCHANGED <<reg, regDisk, air, receipt>> /\ IcdTypeOK'
        /\ \A m \in IcdNodes : /\ icd'[m].counter = icd[m].counter
                               /\ icd'[m].wrapped = icd[m].wrapped
    BY <1>4, EndEffect, TakesEffect
  <2>2. \A o \in IcdNodes, m \in air : Uses(o, m.key)' => Uses(o, m.key)
    BY <1>a, <1>4, OwnerStep DEF Shrinks
  <2> QED
    BY <2>1, <2>2, FreshKept
<1>5. ASSUME NEW c \in IcdConns, StoreKey(c) \/ StoreKeyUnsaved(c) PROVE FreshInv'
  <2>1. /\ UNCHANGED <<icd, air, receipt>> /\ IcdTypeOK' /\ regDisk' \in {reg', regDisk}
        /\ \A m \in IcdNodes : reg'[m].counter \in {NoCounter, reg[m].counter}
    BY <1>5, StoreEffect
  <2>2. \A o \in IcdNodes, m \in air : Uses(o, m.key)' => Uses(o, m.key)
    BY <1>a, <1>5, OwnerStep DEF Shrinks
  <2> QED
    BY <2>1, <2>2, FreshKept
<1>6. ASSUME NEW n \in IcdNodes, SendCheckIn(n) PROVE FreshInv'
  <2>1. /\ UNCHANGED <<reg, regDisk, receipt>>
        /\ \A m \in IcdNodes : m # n => icd'[m] = icd[m]
        /\ icd[n].key # NoKey
        /\ air' = air \cup {[key |-> icd[n].key, counter |-> icd'[n].counter]}
        /\ icd[n].wrapped => icd'[n].wrapped
        /\ ~ icd'[n].wrapped => icd[n].counter <= icd'[n].counter
        /\ IcdTypeOK'
    BY <1>6, SendEffect
  <2>2. \A o \in IcdNodes, m \in air : Uses(o, m.key)' => Uses(o, m.key)
    BY <1>a, <1>6, OwnerStep DEF Shrinks
  <2>k. PICK k \in Nat : k = icd[n].key
    BY DEF IcdTypeOK
  <2>3. \A o \in IcdNodes : Uses(o, k)' => o = n
    <3>1. Uses(n, k)
      BY <2>1, <2>k, UsesIts
    <3> QED
      BY <1>6, <3>1, OwnerStep DEF Shrinks, OwnerInv
  <2>4. ASSUME NEW o \in IcdNodes, ~ icd'[o].wrapped
        PROVE  /\ reg[o].counter <= icd'[o].counter /\ regDisk[o].counter <= icd'[o].counter
               /\ receipt # NoReceipt /\ receipt.node = o => receipt.counter <= icd'[o].counter
               /\ \A m \in air' : Uses(o, m.key)' => m.counter <= icd'[o].counter
    <3>1. ~ icd[o].wrapped /\ icd[o].counter <= icd'[o].counter
      BY SMTT(30), <2>1, <2>4 DEF IcdTypeOK
    <3>2. /\ reg[o].counter <= icd[o].counter /\ regDisk[o].counter <= icd[o].counter
          /\ receipt # NoReceipt /\ receipt.node = o => receipt.counter <= icd[o].counter
          /\ \A m \in air : Uses(o, m.key) => m.counter <= icd[o].counter
      BY <3>1 DEF FreshInv
    <3>3. /\ icd[o].counter \in Nat /\ icd'[o].counter \in Nat
          /\ reg[o].counter \in Int /\ regDisk[o].counter \in Int
          /\ \A m \in air : m.counter \in Nat
          /\ receipt.counter \in Int
      BY <2>1 DEF IcdTypeOK, NoCounter, NoReceipt
    <3>4. \A m \in air : Uses(o, m.key)' => m.counter <= icd'[o].counter
      BY <2>2, <3>1, <3>2, <3>3
    <3>5. Uses(o, k)' => icd'[n].counter <= icd'[o].counter
      BY <2>3, <3>3
    <3>6. \A m \in air' : m \in air \/ (m.key = k /\ m.counter = icd'[n].counter)
      BY <2>1, <2>k
    <3>7. \A m \in air' : Uses(o, m.key)' => m.counter <= icd'[o].counter
      BY <3>4, <3>5, <3>6
    <3> QED
      BY <3>1, <3>2, <3>3, <3>7
  <2> QED
    BY <2>1, <2>4 DEF FreshInv, NoReceipt
<1>7. ASSUME NEW m \in air, Identify(m) PROVE FreshInv'
  <2>1. /\ UNCHANGED <<reg, regDisk, icd, air>>
        /\ receipt'.node \in IcdNodes /\ receipt'.key = m.key /\ receipt'.counter = m.counter
        /\ reg[receipt'.node].key = m.key
    BY <1>7, IdentifyEffect
  <2>2. \A o \in IcdNodes, x \in air : Uses(o, x.key)' => Uses(o, x.key)
    BY <1>a, <1>7, OwnerStep DEF Shrinks
  <2>3. Uses(receipt'.node, m.key)
    BY <1>a, <2>1, UsesIts DEF NoKey
  <2>4. ~ icd[receipt'.node].wrapped => receipt'.counter <= icd[receipt'.node].counter
    BY <2>1, <2>3 DEF FreshInv
  <2> QED
    BY <2>1, <2>2, <2>4 DEF FreshInv
<1>8. CASE NoteCounter \/ NoteCounterUnsaved
  <2>1. /\ UNCHANGED <<icd, air>> /\ IcdTypeOK' /\ receipt # NoReceipt /\ receipt' = NoReceipt
        /\ regDisk' \in {reg', regDisk}
        /\ \A n \in IcdNodes : \/ reg'[n].counter = reg[n].counter
                               \/ receipt.node = n /\ reg'[n].counter = receipt.counter
    BY <1>8, NoteEffect
  <2>2. \A o \in IcdNodes, m \in air : Uses(o, m.key)' => Uses(o, m.key)
    BY <1>a, <1>8, OwnerStep DEF Shrinks
  <2> QED
    BY <2>1, <2>2, FreshKept
<1>9. CASE IcdKill
  <2>1. /\ UNCHANGED <<icd, air, regDisk>> /\ IcdTypeOK' /\ receipt' = NoReceipt /\ reg' = regDisk
    BY <1>9, KillEffect
  <2>2. \A o \in IcdNodes, m \in air : Uses(o, m.key)' => Uses(o, m.key)
    BY <1>a, <1>9, OwnerStep DEF Shrinks
  <2> QED
    BY <2>1, <2>2, FreshKept
<1> QED
    BY <1>1, <1>2, <1>3, <1>4, <1>5, <1>6, <1>7, <1>8, <1>9 DEF IcdNext

\* Nothing is accepted or identified, and a registration stays, goes, or is
\* replaced by one whose key has read nothing.
LEMMA OnceKept ==
    ASSUME IcdTypeOK, OnceInv, UNCHANGED <<receipt, accepted, replayed, forgot>>,
           \A n \in IcdNodes :
              \/ reg'[n].key = reg[n].key /\ reg'[n].counter = reg[n].counter
              \/ reg'[n].key = NoKey
              \/ /\ \A a \in accepted : a.key # reg'[n].key
                 /\ receipt # NoReceipt => receipt.key # reg'[n].key
    PROVE  OnceInv'
<1>1. /\ \A a \in accepted : a.key # NoKey
      /\ receipt # NoReceipt => receipt.key # NoKey /\ receipt.node \in IcdNodes
    BY DEF IcdTypeOK, NoKey
<1>2. CASE forgot
    BY <1>2 DEF OnceInv
<1>3. CASE ~ forgot
  <2>1. /\ \A n \in IcdNodes, a \in accepted : a.key = reg[n].key => a.counter <= reg[n].counter
        /\ receipt # NoReceipt =>
              /\ [key |-> receipt.key, counter |-> receipt.counter] \notin accepted
              /\ reg[receipt.node].key = receipt.key => reg[receipt.node].counter < receipt.counter
              /\ reg[receipt.node].key # receipt.key => \A a \in accepted : a.key # reg[receipt.node].key
        /\ ~ replayed
    BY <1>3 DEF OnceInv
  <2>2. \A n \in IcdNodes, a \in accepted : a.key = reg'[n].key => a.counter <= reg'[n].counter
    BY <1>1, <2>1
  <2>3. receipt # NoReceipt =>
           /\ reg'[receipt.node].key = receipt.key => reg'[receipt.node].counter < receipt.counter
           /\ reg'[receipt.node].key # receipt.key => \A a \in accepted : a.key # reg'[receipt.node].key
    BY <1>1, <2>1
  <2> QED
    BY <2>1, <2>2, <2>3 DEF OnceInv, NoReceipt
<1> QED
    BY <1>2, <1>3

LEMMA OnceStep ==
    ASSUME IcdTypeOK, OwnerInv, PendingInv, OnceInv, IcdNext PROVE OnceInv'
<1>1. ASSUME NEW c \in IcdConns, NEW n \in IcdNodes,
             \/ \E allow \in BOOLEAN, ignored \in SUBSET Vendors[n] : Register(c, n, allow, ignored)
             \/ \E force \in BOOLEAN : Unregister(c, n, force)
             \/ Resync(c, n)
      PROVE  OnceInv'
  <2>1. /\ UNCHANGED <<receipt, accepted, replayed, forgot>>
        /\ reg' = reg \/ reg' = [reg EXCEPT ![n] = Unregistered]
    BY <1>1 DEF Register, Unregister, ForgetKey, Resync
  <2>2. \A o \in IcdNodes : reg'[o] = reg[o] \/ reg'[o].key = NoKey
    <3>1. CASE reg' = reg
      BY <3>1
    <3>2. CASE reg' = [reg EXCEPT ![n] = Unregistered]
      BY <3>2, RemovedIs
    <3> QED
      BY <2>1, <3>1, <3>2
  <2> QED
    BY <2>1, <2>2, OnceKept
<1>2. ASSUME NEW c \in IcdConns,
             \/ RegisterRefused(c) \/ RegisterUnanswered(c) \/ DropAnswered(c) \/ DropFailed(c)
             \/ RegisterAccepted(c)
      PROVE  OnceInv'
  <2>1. UNCHANGED <<reg, receipt, accepted, replayed, forgot>>
    BY <1>2, EndEffect, TakesEffect
  <2> QED
    BY <2>1, OnceKept
<1>3. ASSUME NEW c \in IcdConns, StoreKey(c) \/ StoreKeyUnsaved(c) PROVE OnceInv'
  <2>1. Pending(c)
    BY <1>3, StoreEffect DEF Pending
  <2>2. /\ \A a \in accepted : a.key # icdReq[c].key
        /\ receipt # NoReceipt => receipt.key # icdReq[c].key
    BY <2>1 DEF PendingInv
  <2>3. /\ UNCHANGED <<receipt, accepted, replayed, forgot>>
        /\ \A n \in IcdNodes : reg'[n] = reg[n] \/ reg'[n].key = icdReq[c].key
    BY <1>3, StoreEffect
  <2> QED
    BY <2>2, <2>3, OnceKept
<1>4. ASSUME NEW n \in IcdNodes, SendCheckIn(n) PROVE OnceInv'
  <2>1. UNCHANGED <<reg, receipt, accepted, replayed, forgot>>
    BY <1>4, SendEffect
  <2> QED
    BY <2>1, OnceKept
<1>5. ASSUME NEW m \in air, Identify(m) PROVE OnceInv'
  <2>1. /\ UNCHANGED <<reg, accepted, replayed, forgot>>
        /\ receipt'.node \in IcdNodes /\ receipt'.key = m.key /\ receipt'.counter = m.counter
        /\ reg[receipt'.node].key = m.key /\ reg[receipt'.node].counter < m.counter
        /\ m.counter \in Nat
    BY <1>5, IdentifyEffect
  <2>2. ASSUME ~ forgot
        PROVE  [key |-> receipt'.key, counter |-> receipt'.counter] \notin accepted
    <3>1. \A a \in accepted : a.key = m.key => a.counter <= reg[receipt'.node].counter
      BY <2>1, <2>2 DEF OnceInv
    <3>2. \A a \in accepted : a.counter \in Nat
      BY DEF IcdTypeOK
    <3>3. reg[receipt'.node].counter \in Int
      BY <2>1 DEF IcdTypeOK, NoCounter
    <3>4. \A a \in accepted : a.key = m.key => a.counter # m.counter
      BY <2>1, <3>1, <3>2, <3>3
    <3> QED
      BY <2>1, <3>4
  <2> QED
    BY <2>1, <2>2 DEF OnceInv
<1>6. CASE NoteCounter \/ NoteCounterUnsaved
  <2> DEFINE x == [key |-> receipt.key, counter |-> receipt.counter]
             r == receipt.node
  <2>1. /\ receipt # NoReceipt /\ receipt' = NoReceipt
        /\ r \in IcdNodes /\ receipt.key \in Nat \ {0} /\ receipt.counter \in Nat
        /\ forgot' = forgot
        /\ \A n \in IcdNodes : reg'[n].key = reg[n].key
        /\ \A n \in IcdNodes : n # r => reg'[n] = reg[n]
        /\ reg[r].key # NoKey => reg'[r].counter = receipt.counter
        /\ accepted' = accepted \cup {x}
        /\ replayed' = (replayed \/ x \in accepted)
    BY <1>6, NoteEffect
  <2>2. CASE forgot
    BY <2>1, <2>2 DEF OnceInv
  <2>3. CASE ~ forgot
    <3>1. /\ \A n \in IcdNodes, a \in accepted : a.key = reg[n].key => a.counter <= reg[n].counter
          /\ x \notin accepted /\ ~ replayed
          /\ reg[r].key = receipt.key => reg[r].counter < receipt.counter
          /\ reg[r].key # receipt.key => \A a \in accepted : a.key # reg[r].key
      BY <2>1, <2>3 DEF OnceInv
    <3>2. x.key = receipt.key /\ x.counter = receipt.counter
      OBVIOUS
    <3> HIDE DEF x
    <3>3. \A n \in IcdNodes : reg[n].key = receipt.key => n = r
      <4>1. Uses(r, receipt.key)
        BY <2>1, UsesIts
      <4>2. \A n \in IcdNodes : reg[n].key = receipt.key => Uses(n, receipt.key)
        BY <2>1, UsesIts DEF NoKey
      <4> QED
        BY <2>1, <4>1, <4>2 DEF OwnerInv
    <3>4. /\ \A a \in accepted : a.key \in Nat \ {0} /\ a.counter \in Nat
          /\ \A n \in IcdNodes : reg[n].counter \in Int
      BY DEF IcdTypeOK, NoCounter
    <3>5. ASSUME NEW n \in IcdNodes, n # r, NEW a \in accepted', a.key = reg'[n].key
          PROVE  a.counter <= reg'[n].counter
      <4>1. reg'[n] = reg[n]
        BY <2>1, <3>5
      <4>2. a # x
        BY <3>2, <3>3, <3>5, <4>1
      <4>3. a \in accepted
        BY <2>1, <4>2
      <4> QED
        BY <3>1, <3>5, <4>1, <4>3
    <3>6. ASSUME NEW a \in accepted', a.key = reg'[r].key PROVE a.counter <= reg'[r].counter
      <4>1. a.key = reg[r].key /\ a.key # NoKey
        BY <2>1, <3>2, <3>4, <3>6 DEF NoKey
      <4>2. reg'[r].counter = receipt.counter
        BY <2>1, <4>1
      <4>3. CASE a = x
        BY <2>1, <3>2, <4>2, <4>3
      <4>4. CASE a # x
        <5>1. a \in accepted
          BY <2>1, <4>4
        <5>2. reg[r].key = receipt.key
          BY <3>1, <4>1, <5>1
        <5>3. a.counter <= reg[r].counter /\ reg[r].counter < receipt.counter
          BY <2>1, <3>1, <4>1, <5>1, <5>2
        <5>4. a.counter \in Nat /\ reg[r].counter \in Int
          BY <2>1, <3>4, <5>1
        <5> QED
          BY <2>1, <4>2, <5>3, <5>4
      <4> QED
        BY <4>3, <4>4
    <3>7. \A n \in IcdNodes, a \in accepted' : a.key = reg'[n].key => a.counter <= reg'[n].counter
      BY <3>5, <3>6
    <3>8. ~ replayed'
      BY <2>1, <3>1
    <3> QED
      BY <2>1, <3>7, <3>8 DEF OnceInv
  <2> QED
    BY <2>2, <2>3
<1>7. CASE IcdKill
  <2>1. /\ UNCHANGED <<regDisk, accepted, replayed>> /\ reg' = regDisk /\ receipt' = NoReceipt
        /\ forgot' = (forgot \/ Outdated)
    BY <1>7, KillEffect
  <2>2. ASSUME ~ Outdated, NEW n \in IcdNodes, NEW a \in accepted, a.key = regDisk[n].key
        PROVE  a.counter <= regDisk[n].counter
    <3>1. ~ (a.counter > regDisk[n].counter)
      BY <2>2 DEF Outdated
    <3>2. a.counter \in Int /\ regDisk[n].counter \in Int
      BY DEF IcdTypeOK, NoCounter
    <3> QED
      BY <3>1, <3>2
  <2>3. /\ replayed' => forgot'
        /\ ~ forgot' => ~ Outdated
    BY <2>1 DEF OnceInv
  <2> QED
    BY <2>1, <2>2, <2>3 DEF OnceInv
<1> QED
    BY <1>1, <1>2, <1>3, <1>4, <1>5, <1>6, <1>7 DEF IcdNext

-----------------------------------------------------------------------------
(* The two copies of a key.                                                *)

LEMMA BusyIs ==
    \A n, c : c \in Busy(n) <=> c \in IcdConns /\ icdReq[c].at # "idle" /\ icdReq[c].node = n
BY DEF Busy

\* The requests about a node, and its two copies of the key, are as they were.
LEMMA AgreeFrame ==
    ASSUME NEW n \in IcdNodes, Settled(n),
           icd'[n].key = icd[n].key, reg'[n].key = reg[n].key,
           \A c \in IcdConns : (icdReq[c].at # "idle" /\ icdReq[c].node = n)
                            \/ (icdReq'[c].at # "idle" /\ icdReq'[c].node = n)
                               => icdReq'[c] = icdReq[c]
    PROVE  Settled(n)'
<1>1. Busy(n)' = Busy(n)
    BY DEF Busy
<1>2. Agree(n)' <=> Agree(n)
    BY DEF Agree
<1>3. \A c \in Busy(n) : icdReq'[c] = icdReq[c]
    BY BusyIs
<1> QED
    BY <1>1, <1>2, <1>3 DEF Settled

LEMMA AgreeStep ==
    ASSUME IcdTypeOK, AgreeInv, IcdNext PROVE AgreeInv'
<1>1. ASSUME NEW c \in IcdConns, NEW n \in IcdNodes,
             \/ \E allow \in BOOLEAN, ignored \in SUBSET Vendors[n] : Register(c, n, allow, ignored)
             \/ Unregister(c, n, FALSE) \/ Resync(c, n)
      PROVE  AgreeInv'
  <2>1. /\ icdReq[c].at = "idle" /\ icdReq'[c].node = n
        /\ \A d \in IcdConns : d # c => icdReq'[d] = icdReq[d]
        /\ icd' = icd
        /\ strayed' = (IF Busy(n) # {} THEN strayed \cup {n} ELSE strayed)
        /\ icdReq'[c].at = "register" => reg' = reg
        /\ icdReq'[c].at # "store"
    BY <1>1, BeginEffect
  <2>2. \A o \in IcdNodes : o # n => reg'[o] = reg[o]
    <3>1. reg' = reg \/ reg' = [reg EXCEPT ![n] = Unregistered]
      BY <1>1, BeginEffect
    <3>2. CASE reg' = [reg EXCEPT ![n] = Unregistered]
      BY <3>2, RemovedIs
    <3> QED
      BY <3>1, <3>2
  <2>3. ASSUME NEW o \in IcdNodes, o \notin strayed', o # n PROVE Settled(o)'
    <3>1. Settled(o)
      BY <2>1, <2>3 DEF AgreeInv
    <3> QED
      BY <2>1, <2>2, <2>3, <3>1, AgreeFrame
  <2>4. ASSUME n \notin strayed' PROVE Settled(n)'
    <3>1. n \notin strayed /\ Busy(n) = {}
      BY <2>1, <2>4
    <3>2. Agree(n)
      BY <3>1 DEF AgreeInv, Settled
    <3>3. \A d \in Busy(n)' : d = c
      BY <2>1, <3>1 DEF Busy
    <3>4. Busy(n)' = {} => FALSE
      <4>1. icdReq'[c].at # "idle"
        BY <1>1, BeginEffect
      <4> QED
        BY <2>1, <4>1 DEF Busy
    <3>5. icdReq'[c].at = "register" => Agree(n)'
      BY <2>1, <3>2 DEF Agree
    <3> QED
      BY <2>1, <3>3, <3>4, <3>5 DEF Settled
  <2> QED
    BY <2>3, <2>4 DEF AgreeInv
<1>2. ASSUME NEW c \in IcdConns, NEW n \in IcdNodes, Unregister(c, n, TRUE) PROVE AgreeInv'
  <2>1. UNCHANGED <<icdReq, icd>> /\ strayed' = strayed \cup {n}
    BY <1>2, ForceEffect
  <2>2. \A o \in IcdNodes : o # n => reg'[o] = reg[o]
    BY <1>2, ForceEffect, RemovedIs
  <2>3. ASSUME NEW o \in IcdNodes, o \notin strayed' PROVE Settled(o)'
    <3>1. Settled(o) /\ o # n
      BY <2>1, <2>3 DEF AgreeInv
    <3> QED
      BY <2>1, <2>2, <3>1, AgreeFrame
  <2> QED
    BY <2>3 DEF AgreeInv
<1>3. ASSUME NEW c \in IcdConns,
             RegisterRefused(c) \/ RegisterUnanswered(c) \/ DropAnswered(c) \/ DropFailed(c)
      PROVE  AgreeInv'
  <2>n. PICK n : n = icdReq[c].node
    OBVIOUS
  <2>1. /\ icdReq'[c].at = "idle" /\ \A d \in IcdConns : d # c => icdReq'[d] = icdReq[d]
        /\ reg' = reg
        /\ \A m \in IcdNodes : m # n => icd'[m].key = icd[m].key
        /\ \/ icdReq[c].at = "register" /\ icd'[n].key = icd[n].key /\ strayed' = strayed
           \/ icdReq[c].at = "drop" /\ icd'[n].key = NoKey /\ strayed' = strayed
           \/ strayed' = strayed \cup {n}
        /\ icdReq[c].at # "idle"
    BY <1>3, <2>n, EndEffect
  <2>2. ASSUME NEW o \in IcdNodes, o \notin strayed', o # n PROVE Settled(o)'
    <3>1. Settled(o)
      BY <2>1, <2>2 DEF AgreeInv
    <3> QED
      BY <2>n, <2>1, <2>2, <3>1, AgreeFrame
  <2>3. ASSUME n \in IcdNodes, n \notin strayed' PROVE Settled(n)'
    <3>1. n \notin strayed /\ Settled(n)
      BY <2>1, <2>3 DEF AgreeInv
    <3>2. c \in Busy(n)
      BY <2>n, <2>1 DEF Busy
    <3>3. Busy(n)' = {}
      BY <2>1, <3>1, <3>2 DEF Busy, Settled
    <3>4. Agree(n)'
      BY <2>1, <2>3, <3>1, <3>2 DEF Agree, Settled
    <3> QED
      BY <3>3, <3>4 DEF Settled
  <2> QED
    BY <2>2, <2>3 DEF AgreeInv
<1>4. ASSUME NEW c \in IcdConns, RegisterAccepted(c) PROVE AgreeInv'
  <2>n. PICK n : n = icdReq[c].node
    OBVIOUS
  <2>1. /\ icdReq[c].at = "register" /\ icdReq'[c].at = "store"
        /\ icdReq'[c].node = n /\ icdReq'[c].key = icdReq[c].key
        /\ \A d \in IcdConns : d # c => icdReq'[d] = icdReq[d]
        /\ UNCHANGED <<reg, strayed>>
        /\ \A m \in IcdNodes : m # n => icd'[m].key = icd[m].key
        /\ icd'[n].key = icdReq[c].key
    BY <1>4, <2>n, TakesEffect
  <2>2. ASSUME NEW o \in IcdNodes, o \notin strayed', o # n PROVE Settled(o)'
    <3>1. Settled(o)
      BY <2>1, <2>2 DEF AgreeInv
    <3> QED
      BY <2>n, <2>1, <2>2, <3>1, AgreeFrame
  <2>3. ASSUME n \in IcdNodes, n \notin strayed' PROVE Settled(n)'
    <3>1. Settled(n)
      BY <2>1, <2>3 DEF AgreeInv
    <3>2. c \in Busy(n)
      BY <2>n, <2>1 DEF Busy
    <3>3. Busy(n)' = {c}
      BY <2>1, <3>1, <3>2 DEF Busy, Settled
    <3> QED
      BY <2>1, <3>3 DEF Settled
  <2> QED
    BY <2>2, <2>3 DEF AgreeInv
<1>5. ASSUME NEW c \in IcdConns, StoreKey(c) \/ StoreKeyUnsaved(c) PROVE AgreeInv'
  <2>n. PICK n : n = icdReq[c].node
    OBVIOUS
  <2>1. /\ icdReq[c].at = "store" /\ icdReq'[c].at = "idle" /\ n \in IcdNodes
        /\ \A d \in IcdConns : d # c => icdReq'[d] = icdReq[d]
        /\ icd' = icd
        /\ reg'[n].key = icdReq[c].key
        /\ \A m \in IcdNodes : m # n => reg'[m] = reg[m]
        /\ \/ strayed' = strayed
           \/ /\ strayed' = strayed \ {n} /\ Busy(n) = {c} /\ icd[n].key = icdReq[c].key
    BY <1>5, <2>n, StoreEffect
  <2>2. ASSUME NEW o \in IcdNodes, o \notin strayed', o # n PROVE Settled(o)'
    <3>1. Settled(o)
      BY <2>1, <2>2 DEF AgreeInv
    <3> QED
      BY <2>n, <2>1, <2>2, <3>1, AgreeFrame
  <2>3. ASSUME n \notin strayed' PROVE Settled(n)'
    <3>1. c \in Busy(n)
      BY <2>n, <2>1 DEF Busy
    <3>2. Busy(n) = {c} /\ icd[n].key = icdReq[c].key
      <4>1. CASE n \in strayed
        BY <2>1, <2>3, <4>1
      <4>2. CASE n \notin strayed
        <5>1. Settled(n)
          BY <2>1, <4>2 DEF AgreeInv
        <5> QED
          BY <2>1, <3>1, <5>1 DEF Settled
      <4> QED
        BY <4>1, <4>2
    <3>3. Busy(n)' = {}
      BY <2>1, <3>2 DEF Busy
    <3>4. Agree(n)'
      BY <2>1, <3>2 DEF Agree
    <3> QED
      BY <3>3, <3>4 DEF Settled
  <2> QED
    BY <2>2, <2>3 DEF AgreeInv
<1>6. CASE \/ \E n \in IcdNodes : SendCheckIn(n)
           \/ \E m \in air : Identify(m)
           \/ NoteCounter \/ NoteCounterUnsaved
  <2>1. /\ UNCHANGED <<icdReq, strayed>>
        /\ \A o \in IcdNodes : icd'[o].key = icd[o].key /\ reg'[o].key = reg[o].key
    BY <1>6, SendEffect, IdentifyEffect, NoteEffect
  <2>2. ASSUME NEW o \in IcdNodes, o \notin strayed' PROVE Settled(o)'
    <3>1. Settled(o)
      BY <2>1, <2>2 DEF AgreeInv
    <3> QED
      BY <2>1, <3>1, AgreeFrame
  <2> QED
    BY <2>2 DEF AgreeInv
<1>7. CASE IcdKill
  <2>1. /\ icd' = icd /\ reg' = regDisk
        /\ \A c \in IcdConns : icdReq'[c].at = "idle"
        /\ strayed' = {n \in IcdNodes : n \in strayed \/ Busy(n) # {} \/ reg[n].key # regDisk[n].key}
    BY <1>7, KillEffect
  <2>2. ASSUME NEW o \in IcdNodes, o \notin strayed' PROVE Settled(o)'
    <3>1. o \notin strayed /\ Busy(o) = {} /\ reg[o].key = regDisk[o].key
      BY <2>1, <2>2
    <3>2. Agree(o)
      BY <3>1 DEF AgreeInv, Settled
    <3>3. Agree(o)'
      BY <2>1, <3>1, <3>2 DEF Agree
    <3>4. Busy(o)' = {}
      BY <2>1 DEF Busy
    <3> QED
      BY <3>3, <3>4 DEF Settled
  <2> QED
    BY <2>2 DEF AgreeInv
<1> QED
    BY <1>1, <1>2, <1>3, <1>4, <1>5, <1>6, <1>7 DEF IcdNext

-----------------------------------------------------------------------------
(* The invariant.                                                          *)

LEMMA IcdStart ==
    ASSUME IcdInit PROVE IcdInv
<1>1. IcdTypeOK
  <2>1. /\ reg \in [IcdNodes -> [key : Nat, counter : Nat \cup {NoCounter}]] /\ regDisk = reg
    BY DEF IcdInit, Unregistered, NoKey
  <2>2. /\ icd \in [IcdNodes -> [key : Nat, counter : Nat, wrapped : BOOLEAN]]
        /\ \A n \in IcdNodes : icd[n].counter = 0
    BY DEF IcdInit, NoKey
  <2>3. \A n \in IcdNodes : icd[n].counter < CounterRange
    BY <2>2, IcdAssumption
  <2>4. /\ icdReq \in [IcdConns -> [at : {"idle", "register", "store", "drop"},
                                    node : IcdNodes \cup {"none"}, key : Nat]]
        /\ \A c \in IcdConns : icdReq[c].at = "idle"
    BY DEF IcdInit, IcdIdle, NoKey
  <2>5. icdUsed \in [keys : Nat, checkins : Nat, faults : Nat]
    BY DEF IcdInit
  <2>6. air = {} /\ accepted = {} /\ strayed = {} /\ replayed \in BOOLEAN /\ forgot \in BOOLEAN
    BY Zenon DEF IcdInit
  <2>7. receipt = NoReceipt
    BY DEF IcdInit
  <2> QED
    BY <2>1, <2>2, <2>3, <2>4, <2>5, <2>6, <2>7 DEF IcdTypeOK
<1>2. /\ \A n \in IcdNodes : reg[n].key = NoKey /\ regDisk[n].key = NoKey /\ icd[n].key = NoKey
      /\ \A n \in IcdNodes : reg[n].counter = NoCounter /\ regDisk[n].counter = NoCounter
      /\ \A n \in IcdNodes : icd[n].counter = 0
      /\ air = {} /\ accepted = {} /\ receipt = NoReceipt
      /\ \A c \in IcdConns : icdReq[c].at = "idle"
      /\ replayed = FALSE /\ forgot = FALSE
    BY DEF IcdInit, Unregistered, IcdIdle
<1>3. \A n \in IcdNodes, k \in Nat : ~ Uses(n, k)
    BY <1>2 DEF Uses, Pending
<1>4. OwnerInv
    BY <1>2, <1>3 DEF OwnerInv
<1>5. PendingInv
    BY <1>2 DEF PendingInv, Pending
<1>6. FreshInv
    BY <1>2 DEF FreshInv, NoCounter
<1>7. OnceInv
    BY <1>2 DEF OnceInv
<1>8. AgreeInv
    BY <1>2 DEF AgreeInv, Settled, Agree, Busy
<1> QED
    BY <1>1, <1>4, <1>5, <1>6, <1>7, <1>8 DEF IcdInv

LEMMA TypeStep ==
    ASSUME IcdTypeOK, IcdNext PROVE IcdTypeOK'
<1>1. ASSUME NEW c \in IcdConns, NEW n \in IcdNodes, NEW force \in BOOLEAN, Unregister(c, n, force)
      PROVE  IcdTypeOK'
    BY <1>1, BeginEffect, ForceEffect
<1> QED
    BY <1>1, BeginEffect, EndEffect, TakesEffect, StoreEffect, SendEffect, IdentifyEffect,
       NoteEffect, KillEffect DEF IcdNext

LEMMA KeyStep ==
    ASSUME IcdTypeOK, OwnerInv, PendingInv, IcdNext PROVE OwnerInv' /\ PendingInv'
<1>1. ASSUME NEW c \in IcdConns, NEW n \in IcdNodes,
             \E allow \in BOOLEAN, ignored \in SUBSET Vendors[n] : Register(c, n, allow, ignored)
      PROVE  OwnerInv' /\ PendingInv'
    BY <1>1, RegisterKeys
<1> QED
    BY <1>1, OwnerStep, PendingStep DEF IcdNext

LEMMA IcdStep ==
    ASSUME IcdInv, [IcdNext]_icdVars PROVE IcdInv'
<1>1. CASE IcdNext
    BY <1>1, TypeStep, KeyStep, FreshStep, OnceStep, AgreeStep DEF IcdInv
<1>2. CASE UNCHANGED icdVars
  <2>1. UNCHANGED <<reg, regDisk, icd, air, receipt, icdReq, icdUsed,
                    accepted, replayed, forgot, strayed>>
    BY <1>2 DEF icdVars, icdHistory
  <2>2. /\ IcdTypeOK' /\ OnceInv'
    BY <2>1 DEF IcdInv, IcdTypeOK, OnceInv
  <2>3. \A n \in IcdNodes, k \in Nat : Uses(n, k)' <=> Uses(n, k)
    BY <2>1 DEF Uses, Pending
  <2>4. OwnerInv'
    BY <2>1, <2>3 DEF IcdInv, OwnerInv
  <2>5. PendingInv'
    BY <2>1 DEF IcdInv, PendingInv, Pending
  <2>6. FreshInv'
    <3>1. \A m \in air : m.key \in Nat
      BY DEF IcdInv, IcdTypeOK
    <3> QED
      BY <2>1, <2>3, <3>1 DEF IcdInv, FreshInv
  <2>7. AgreeInv'
    BY <2>1 DEF IcdInv, AgreeInv, Settled, Agree, Busy
  <2> QED
    BY <2>2, <2>4, <2>5, <2>6, <2>7 DEF IcdInv
<1> QED
    BY <1>1, <1>2

\* A check-in counts once, the key of a device that nothing has come between
\* is the key that reads its check-ins, and its next check-in is never taken
\* for one that was seen: whatever is registered, dropped, resynchronised,
\* lost, delayed or delivered again meanwhile, and wherever a save or a call
\* fails or the server is killed (api/icd.rs, matter/checkin.rs).
THEOREM HeardOnce == IcdSpec => []CheckInsAreHeardOnce
<1>1. IcdInit => IcdInv
    BY IcdStart
<1>2. IcdInv /\ [IcdNext]_icdVars => IcdInv'
    BY IcdStep
<1>3. ASSUME IcdInv PROVE CheckInsAreHeardOnce
  <2>1. NoReplay
    BY <1>3 DEF IcdInv, OnceInv, NoReplay
  <2>2. KeysAgree
    BY <1>3 DEF IcdInv, AgreeInv, Settled, Agree, KeysAgree
  <2>3. NextIsFresh
    BY <1>3 DEF IcdInv, FreshInv, NextIsFresh
  <2> QED
    BY <2>1, <2>2, <2>3 DEF CheckInsAreHeardOnce
<1> QED
    BY <1>1, <1>2, <1>3, PTL DEF IcdSpec
=============================================================================
