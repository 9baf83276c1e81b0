---------------------------- MODULE ClientProofs ----------------------------
(***************************************************************************)
(* Proofs about what clients hand in and are given: the pairing codes of a *)
(* commissioning window, the bytes of a request, wherever the reads have   *)
(* cut them, and the named credentials of the configuration; and about     *)
(* what a browse of the network finds and reports, and the names in the    *)
(* answers, which the server has not chosen.                               *)
(*                                                                         *)
(* PairingInv says that a code is sound and of its window at each step of  *)
(* its making.  HeadInv ties what was read, replayed or stored to the      *)
(* places of the bytes in the request.  CredInv says of both lists, in     *)
(* memory and in config.json, that a name is there once and no reserved    *)
(* one is, and of the passwords that they were sent for their networks.    *)
(* WalkInv bounds what the walk of a name has read.  BrowserInv says that  *)
(* the links still to ask are none of those asked, and that of each        *)
(* instance just what was heard of it is found.                            *)
(***************************************************************************)
EXTENDS Browser, Credentials, Pairing, RequestHead, Loops, SequenceTheorems,
        FiniteSetTheorems, WellFoundedInduction, TLAPS

-----------------------------------------------------------------------------
(* Pairing codes.                                                          *)

PairingTypeOK ==
    /\ windows \in Nat
    /\ asking \in [Askers -> [at : {"idle", "verifier", "invoke", "codes"},
                              device : Accessories \cup {NoDevice},
                              passcode : Nat \cup {Unset}, discriminator : Nat \cup {Unset},
                              number : Nat]]
    /\ window \in [Accessories -> [number : Nat, passcode : Nat \cup {Unset},
                                   discriminator : Nat \cup {Unset}]]
    /\ codes \subseteq [device : Accessories, number : Nat,
                        code : [passcode : Nat \cup {Unset}, discriminator : Nat \cup {Unset}]]

\* A passcode and a discriminator that were made up, or asked for and fit.
Sound(x) == x.passcode \in Passcodes /\ x.discriminator \in Discriminators

\* If this is still the window that is open, it opens under these.
OpensUnder(n, number, x) ==
    /\ number \in 1 .. windows
    /\ window[n].number = number =>
          window[n].passcode = x.passcode /\ window[n].discriminator = x.discriminator

AskingInv ==
    \A c \in Askers : asking[c].at # "idle" =>
        /\ asking[c].device \in Accessories /\ Sound(asking[c])
        /\ asking[c].at = "codes" => OpensUnder(asking[c].device, asking[c].number, asking[c])

CodesInv == \A k \in codes : Sound(k.code) /\ OpensUnder(k.device, k.number, k.code)

\* Windows are numbered as they open.
WindowInv == \A n \in Accessories : window[n].number <= windows

PairingInv == PairingTypeOK /\ AskingInv /\ CodesInv /\ WindowInv

\* What is drawn or given is a passcode and a discriminator.
LEMMA DrawsAre ==
    /\ Passcodes \subseteq Nat /\ 0 \notin Passcodes /\ Passcodes \cap Forbidden = {}
    /\ Discriminators \subseteq Nat
    /\ \A wanted : Fits(wanted) => Chosen(wanted) \subseteq Discriminators
<1>1. \A d \in Draws : d \in Nat
    BY PairingAssumption
<1>2. PasscodeModulus \in Nat \ {0} /\ HighSpan \in Nat \ {0} /\ LowSpan \in Nat \ {0}
    BY PairingAssumption
<1>3. PICK span \in Nat : span = HighSpan * LowSpan /\ span > 0
    BY <1>2
<1>4. \A d \in Draws : d % PasscodeModulus \in Nat /\ d % span \in 0 .. span - 1
    BY <1>1, <1>2, <1>3
<1>5. Discriminators = 0 .. span - 1
    BY <1>3 DEF Discriminators
<1>6. ASSUME NEW wanted, Fits(wanted)
      PROVE  Chosen(wanted) \subseteq Discriminators
    BY <1>3, <1>4, <1>5, <1>6 DEF Chosen, Fits
<1> QED
    BY <1>4, <1>5, <1>6 DEF Passcodes

\* A request for a window that moves on, and nothing else does.
LEMMA AskerMoves ==
    ASSUME PairingInv, NEW c \in Askers,
           NEW to \in [at : {"idle", "verifier", "invoke"}, device : Accessories \cup {NoDevice},
                       passcode : Nat \cup {Unset}, discriminator : Nat \cup {Unset}, number : Nat],
           to.at = "idle" \/ (to.device \in Accessories /\ Sound(to)),
           asking' = [asking EXCEPT ![c] = to], UNCHANGED <<window, windows, codes>>
    PROVE  PairingInv'
<1>1. PairingTypeOK'
    BY DEF PairingInv, PairingTypeOK
<1>2. asking'[c] = to /\ \A d \in Askers : d # c => asking'[d] = asking[d]
    BY DEF PairingInv, PairingTypeOK
<1>3. AskingInv'
    BY <1>2 DEF PairingInv, AskingInv, OpensUnder, Sound
<1>4. CodesInv' /\ WindowInv'
    BY DEF PairingInv, CodesInv, WindowInv, OpensUnder, Sound
<1> QED
    BY <1>1, <1>3, <1>4 DEF PairingInv

LEMMA PairingStep == ASSUME PairingInv, [PairingNext]_pairingVars PROVE PairingInv'
<1> DEFINE Asker(at) == [at : at, device : Accessories \cup {NoDevice},
                         passcode : Nat \cup {Unset}, discriminator : Nat \cup {Unset}, number : Nat]
<1>0. /\ NotAsking \in Asker({"idle"}) /\ NotAsking.at = "idle"
      /\ \A c \in Askers : asking[c] \in Asker({"idle", "verifier", "invoke", "codes"})
    BY DEF PairingInv, PairingTypeOK, NotAsking
<1>1. ASSUME NEW c \in Askers, NEW n \in Accessories, NEW wanted, Ask(c, n, wanted)
      PROVE  PairingInv'
  <2>1. PICK p \in Passcodes, d \in Chosen(wanted) :
           asking' = [asking EXCEPT ![c] = [at |-> "verifier", device |-> n, passcode |-> p,
                                            discriminator |-> d, number |-> 0]]
    BY <1>1 DEF Ask
  <2>2. p \in Nat /\ d \in Nat /\ d \in Discriminators
    BY <1>1, <2>1, DrawsAre DEF Ask
  <2> DEFINE to == [at |-> "verifier", device |-> n, passcode |-> p, discriminator |-> d,
                    number |-> 0]
  <2>3. to \in Asker({"idle", "verifier", "invoke"}) /\ to.device \in Accessories /\ Sound(to)
    BY <2>1, <2>2 DEF Sound
  <2> HIDE DEF to
  <2> QED
    BY <1>1, <2>1, <2>3, AskerMoves DEF Ask, to
<1>2. ASSUME NEW c \in Askers, Verifier(c)
      PROVE  PairingInv'
  <2>1. PICK to : to = [asking[c] EXCEPT !.at = "invoke"]
    OBVIOUS
  <2>2. asking' = [asking EXCEPT ![c] = to] /\ asking[c].at = "verifier"
    BY <1>2, <2>1 DEF Verifier
  <2>3. to \in Asker({"idle", "verifier", "invoke"})
    BY <1>0, <2>1
  <2>4. to.device \in Accessories /\ Sound(to)
    BY <1>0, <2>1, <2>2 DEF PairingInv, AskingInv, Sound
  <2> QED
    BY <1>2, <2>2, <2>3, <2>4, AskerMoves DEF Verifier
<1>3. ASSUME NEW c \in Askers, AskFails(c)
      PROVE  PairingInv'
  <2>1. NotAsking \in Asker({"idle", "verifier", "invoke"})
    BY <1>0
  <2> QED
    BY <1>0, <1>3, <2>1, AskerMoves DEF AskFails
<1>4. ASSUME NEW c \in Askers, NEW lost \in BOOLEAN, WindowOpens(c, lost)
      PROVE  PairingInv'
  <2>1. PICK n \in Accessories : n = asking[c].device
    BY <1>4 DEF WindowOpens, PairingInv, AskingInv
  <2>2. PICK opened : opened = [number |-> windows + 1, passcode |-> asking[c].passcode,
                                discriminator |-> asking[c].discriminator]
    OBVIOUS
  <2>3. PICK to : to = IF lost THEN NotAsking
                       ELSE [asking[c] EXCEPT !.at = "codes", !.number = windows + 1]
    OBVIOUS
  <2>4. /\ asking[c].at = "invoke" /\ windows' = windows + 1 /\ windows \in Nat
        /\ window' = [window EXCEPT ![n] = opened] /\ codes' = codes
        /\ asking' = [asking EXCEPT ![c] = to]
    BY <1>4, <2>1, <2>2, <2>3 DEF WindowOpens, PairingInv, PairingTypeOK
  <2>5. /\ opened.number = windows + 1 /\ opened.passcode = asking[c].passcode
        /\ opened.discriminator = asking[c].discriminator
        /\ opened \in [number : Nat, passcode : Nat \cup {Unset}, discriminator : Nat \cup {Unset}]
    BY <1>0, <2>2, <2>4
  <2>6. /\ to \in Asker({"idle", "codes"})
        /\ to.at # "idle" => /\ to.device = n /\ to.number = windows + 1
                             /\ to.passcode = asking[c].passcode
                             /\ to.discriminator = asking[c].discriminator
    <3>1. CASE lost
      BY <1>0, <2>3, <3>1
    <3>2. CASE ~ lost
      <4>1. to = [asking[c] EXCEPT !.at = "codes", !.number = windows + 1]
        BY <2>3, <3>2
      <4>2. asking[c] \in Asker({"idle", "verifier", "invoke", "codes"}) /\ windows + 1 \in Nat
        BY <1>0, <2>4
      <4> QED
        BY <2>1, <4>1, <4>2
    <3> QED
      BY <3>1, <3>2
  <2>7. /\ window'[n] = opened /\ \A m \in Accessories : m # n => window'[m] = window[m]
        /\ asking'[c] = to /\ \A d \in Askers : d # c => asking'[d] = asking[d]
    BY <2>4 DEF PairingInv, PairingTypeOK
  <2>8. PairingTypeOK'
    BY <2>4, <2>5, <2>6 DEF PairingInv, PairingTypeOK
  <2>9. ASSUME NEW m \in Accessories, NEW number, NEW x, OpensUnder(m, number, x)
        PROVE  number \in 1 .. windows' /\
               (window'[m].number = number => /\ window'[m].passcode = x.passcode
                                              /\ window'[m].discriminator = x.discriminator)
    BY <2>4, <2>5, <2>7, <2>9 DEF OpensUnder
  <2>10. AskingInv'
    <3>1. asking[c].device = n /\ Sound(asking[c])
      BY <2>1, <2>4 DEF PairingInv, AskingInv
    <3> DEFINE Stands(d) ==
            asking'[d].at # "idle" =>
                /\ asking'[d].device \in Accessories /\ Sound(asking'[d])
                /\ asking'[d].at = "codes" =>
                      /\ asking'[d].number \in 1 .. windows'
                      /\ window'[asking'[d].device].number = asking'[d].number =>
                            /\ window'[asking'[d].device].passcode = asking'[d].passcode
                            /\ window'[asking'[d].device].discriminator = asking'[d].discriminator
    <3>3. Stands(c)
      BY <2>4, <2>5, <2>6, <2>7, <3>1 DEF Sound
    <3>4. ASSUME NEW d \in Askers, d # c
          PROVE  Stands(d)
      <4>1. asking'[d] = asking[d]
        BY <2>7, <3>4
      <4>2. asking[d].at # "idle" => asking[d].device \in Accessories /\ Sound(asking[d])
        BY DEF PairingInv, AskingInv
      <4>3. asking[d].at = "codes" => OpensUnder(asking[d].device, asking[d].number, asking[d])
        BY DEF PairingInv, AskingInv
      <4> QED
        BY <2>9, <4>1, <4>2, <4>3
    <3>5. \A d \in Askers : Stands(d)
      BY <3>3, <3>4
    <3> QED
      BY <3>5 DEF AskingInv, Sound, OpensUnder
  <2>11. CodesInv'
    BY <2>4, <2>9 DEF PairingInv, PairingTypeOK, CodesInv, OpensUnder, Sound
  <2>12. WindowInv'
    BY <2>4, <2>5, <2>7, <2>8 DEF PairingInv, PairingTypeOK, WindowInv
  <2> QED
    BY <2>8, <2>10, <2>11, <2>12 DEF PairingInv
<1>5. ASSUME NEW c \in Askers, PairingCodes(c)
      PROVE  PairingInv'
  <2>1. PICK n \in Accessories : n = asking[c].device
    BY <1>5 DEF PairingCodes, PairingInv, AskingInv
  <2>2. PICK k : k = [device |-> n, number |-> asking[c].number, code |-> CodesOf(c)]
    OBVIOUS
  <2>3. /\ k \in [device : Accessories, number : Nat,
                  code : [passcode : Nat \cup {Unset}, discriminator : Nat \cup {Unset}]]
        /\ k.device = n /\ k.number = asking[c].number
        /\ k.code.passcode = asking[c].passcode /\ k.code.discriminator = asking[c].discriminator
    BY <1>0, <2>2 DEF CodesOf
  <2>4. Sound(k.code) /\ OpensUnder(k.device, k.number, k.code)
    BY <1>5, <2>1, <2>3 DEF PairingCodes, PairingInv, AskingInv, Sound, OpensUnder
  <2>5. /\ codes' = codes \/ codes' = codes \cup {k}
        /\ asking' = [asking EXCEPT ![c] = NotAsking] /\ UNCHANGED <<window, windows>>
    BY <1>5, <2>1, <2>2 DEF PairingCodes
  <2>6. PairingTypeOK'
    BY <1>0, <2>3, <2>5 DEF PairingInv, PairingTypeOK
  <2>7. asking'[c] = NotAsking /\ \A d \in Askers : d # c => asking'[d] = asking[d]
    BY <2>5 DEF PairingInv, PairingTypeOK
  <2>8. AskingInv'
    BY <1>0, <2>5, <2>7 DEF PairingInv, AskingInv, OpensUnder, Sound
  <2>9. CodesInv' /\ WindowInv'
    BY <2>4, <2>5 DEF PairingInv, CodesInv, WindowInv, OpensUnder, Sound
  <2> QED
    BY <2>6, <2>8, <2>9 DEF PairingInv
<1>6. ASSUME NEW n \in Accessories, WindowCloses(n)
      PROVE  PairingInv'
  <2>1. window' = [window EXCEPT ![n] = Closed] /\ UNCHANGED <<asking, windows, codes>>
    BY <1>6 DEF WindowCloses
  <2>2. /\ Closed.number = 0
        /\ Closed \in [number : Nat, passcode : Nat \cup {Unset}, discriminator : Nat \cup {Unset}]
    BY DEF Closed
  <2>3. window'[n] = Closed /\ \A m \in Accessories : m # n => window'[m] = window[m]
    BY <2>1 DEF PairingInv, PairingTypeOK
  <2>4. PairingTypeOK'
    BY <2>1, <2>2 DEF PairingInv, PairingTypeOK
  <2>5. ASSUME NEW m \in Accessories, NEW number, NEW x, OpensUnder(m, number, x)
        PROVE  number \in 1 .. windows' /\
               (window'[m].number = number => /\ window'[m].passcode = x.passcode
                                              /\ window'[m].discriminator = x.discriminator)
    BY <2>1, <2>2, <2>3, <2>5 DEF OpensUnder
  <2>6. AskingInv'
    BY <2>1, <2>5 DEF PairingInv, AskingInv, OpensUnder, Sound
  <2>7. CodesInv'
    BY <2>1, <2>5 DEF PairingInv, PairingTypeOK, CodesInv, OpensUnder, Sound
  <2>8. WindowInv'
    BY <2>1, <2>2, <2>3 DEF PairingInv, PairingTypeOK, WindowInv
  <2> QED
    BY <2>4, <2>6, <2>7, <2>8 DEF PairingInv
<1>7. CASE UNCHANGED <<asking, window, windows, codes>>
    BY <1>7 DEF PairingInv, PairingTypeOK, AskingInv, CodesInv, WindowInv, OpensUnder, Sound
<1> QED
    BY <1>1, <1>2, <1>3, <1>4, <1>5, <1>6, <1>7
       DEF PairingNext, AskRefused, RemoveAccessory, pairingVars

\* What is left of a discriminator without its low bits fits in the high ones.
LEMMA ShortFits ==
    ASSUME NEW d \in Discriminators
    PROVE  ShortOf(d) \in 0 .. HighSpan - 1 /\ ShortOf(d) % HighSpan = ShortOf(d)
<1>1. PICK high \in Nat, low \in Nat : high = HighSpan /\ low = LowSpan /\ high > 0 /\ low > 0
    BY PairingAssumption
<1>2. PICK q \in Int : q = d \div low
    BY <1>1 DEF Discriminators
<1>3. d \in Nat /\ d < high * low
    BY <1>1 DEF Discriminators
<1>4. q >= 0 /\ low * q <= d
    BY <1>1, <1>2, <1>3
<1>5. q < high
  <2>1. SUFFICES ASSUME q >= high PROVE FALSE
    BY <1>1
  <2>2. low * (q - high) >= 0
    BY <1>1, <2>1
  <2>3. low * q >= high * low
    BY <1>1, <2>2
  <2> QED
    BY <1>1, <1>3, <1>4, <2>3
<1>6. q % high = q
    BY <1>1, <1>4, <1>5
<1> QED
    BY <1>1, <1>2, <1>4, <1>5, <1>6 DEF ShortOf

\* The codes of a discriminator match a device that has it, or does not say,
\* and no device that says otherwise.
LEMMA CodesMatch ==
    ASSUME NEW d \in Discriminators
    PROVE  LET ByQr == DiscoveryFilter(NoFilter, 2, d)
               ByManual == DiscoveryFilter(NoFilter, 1, d \div LowSpan)
           IN  /\ \A node \in [discriminator : {d, Unset}, vendor : {1, Unset}, product : {1, Unset},
                             kind : {1, Unset}, mode : {2, Unset}] :
                     MatchesFilter(node, ByQr) /\ MatchesFilter(node, ByManual)
               /\ \A e \in Discriminators :
                     LET node == [discriminator |-> e, vendor |-> 1, product |-> 1, kind |-> 1, mode |-> 2] IN
                     /\ MatchesFilter(node, ByQr) => e = d
                     /\ MatchesFilter(node, ByManual) => e \div LowSpan = d \div LowSpan
<1>1. PICK short : short = d \div LowSpan
    OBVIOUS
<1>2. short \in Nat /\ short % HighSpan = short /\ ShortOf(d) = short /\ d # Unset /\ short # Unset
  <2>1. ShortOf(d) = short
    BY <1>1 DEF ShortOf
  <2>2. d \in Nat
    BY DrawsAre
  <2>3. ShortOf(d) \in Nat /\ ShortOf(d) % HighSpan = ShortOf(d)
    <3>1. HighSpan \in Nat
      BY PairingAssumption
    <3> QED
      BY <3>1, ShortFits
  <2> QED
    BY <2>1, <2>2, <2>3 DEF Unset
<1>3. PICK qr : qr = DiscoveryFilter(NoFilter, 2, d)
    OBVIOUS
<1>4. PICK manual : manual = DiscoveryFilter(NoFilter, 1, short)
    OBVIOUS
<1>5. qr.discriminator = d /\ qr.short = Unset /\ qr.vendor = Unset /\ ~ qr.mode
      /\ qr.product = Unset /\ qr.kind = Unset
    BY <1>3 DEF DiscoveryFilter, NoFilter, Unset
<1>6. manual.discriminator = Unset /\ manual.short = short /\ manual.vendor = Unset /\ ~ manual.mode
      /\ manual.product = Unset /\ manual.kind = Unset
    BY <1>2, <1>4 DEF DiscoveryFilter, NoFilter, Unset
<1>7. ASSUME NEW node \in [discriminator : {d, Unset}, vendor : {1, Unset}, product : {1, Unset},
                         kind : {1, Unset}, mode : {2, Unset}]
      PROVE  MatchesFilter(node, qr) /\ MatchesFilter(node, manual)
    BY <1>2, <1>5, <1>6, <1>7 DEF MatchesFilter, Agrees
<1>8. ASSUME NEW e \in Discriminators, NEW node,
             node = [discriminator |-> e, vendor |-> 1, product |-> 1, kind |-> 1, mode |-> 2]
      PROVE  /\ MatchesFilter(node, qr) => e = d
             /\ MatchesFilter(node, manual) => e \div LowSpan = short
  <2>1. node.discriminator = e /\ e # Unset
    BY <1>8, DrawsAre DEF Unset
  <2> QED
    BY <1>2, <1>5, <1>6, <2>1 DEF MatchesFilter, Agrees, ShortOf
<1> QED
    BY <1>1, <1>3, <1>4, <1>7, <1>8

\* For any clients, devices, passcodes and windows: whoever is given the codes
\* of the window that is open finds the device by them and gets in
\* (api/commissioning.rs: open_commissioning_window, discover).
THEOREM CodesAlwaysWork == PairingSpec => []CodesWork
<1>1. PairingInit => PairingInv
  <2> SUFFICES ASSUME PairingInit PROVE PairingInv
    OBVIOUS
  <2>1. /\ NotAsking \in [at : {"idle", "verifier", "invoke", "codes"},
                          device : Accessories \cup {NoDevice},
                          passcode : Nat \cup {Unset}, discriminator : Nat \cup {Unset},
                          number : Nat]
        /\ NotAsking.at = "idle" /\ Closed.number = 0
        /\ Closed \in [number : Nat, passcode : Nat \cup {Unset}, discriminator : Nat \cup {Unset}]
    BY DEF NotAsking, Closed
  <2> QED
    BY <2>1 DEF PairingInit, PairingInv, PairingTypeOK, AskingInv, CodesInv, WindowInv
<1>2. PairingInv /\ [PairingNext]_pairingVars => PairingInv'
    BY PairingStep
<1>3. PairingInv => CodesWork
  <2> SUFFICES ASSUME PairingInv, NEW k \in Valid
               PROVE  /\ k.code.passcode = window[k.device].passcode
                      /\ k.code.discriminator = window[k.device].discriminator
                      /\ k.code.passcode \notin Forbidden \cup {0}
                      /\ k.code.discriminator \in Discriminators
    <3>1. ASSUME NEW x \in Valid,
                 x.code.discriminator \in Discriminators,
                 x.code.discriminator = window[x.device].discriminator
          PROVE  LET ByQr == DiscoveryFilter(NoFilter, 2, x.code.discriminator)
                     ByManual == DiscoveryFilter(NoFilter, 1, x.code.discriminator \div LowSpan)
                 IN  /\ \A node \in Announcements(window[x.device]) :
                           MatchesFilter(node, ByQr) /\ MatchesFilter(node, ByManual)
                     /\ \A d \in Discriminators :
                           LET node == [discriminator |-> d, vendor |-> 1, product |-> 1, kind |-> 1,
                                        mode |-> 2] IN
                           /\ MatchesFilter(node, ByQr) => d = x.code.discriminator
                           /\ MatchesFilter(node, ByManual) =>
                                 d \div LowSpan = x.code.discriminator \div LowSpan
      <4>1. Announcements(window[x.device]) =
                [discriminator : {x.code.discriminator, Unset}, vendor : {1, Unset}, product : {1, Unset},
                 kind : {1, Unset}, mode : {2, Unset}]
        BY <3>1 DEF Announcements
      <4> QED
        BY <3>1, <4>1, CodesMatch, Zenon
    <3> QED
      BY <3>1 DEF CodesWork, CodesOpenTheWindow, CodesFindTheDevice
  <2>1. k \in codes /\ k.number = window[k.device].number
    BY DEF Valid
  <2>2. Sound(k.code) /\ OpensUnder(k.device, k.number, k.code)
    BY <2>1 DEF PairingInv, CodesInv
  <2> QED
    BY <2>1, <2>2, DrawsAre DEF Sound, OpensUnder
<1> QED
    BY <1>1, <1>2, <1>3, PTL DEF PairingSpec

-----------------------------------------------------------------------------
(* The request head.                                                       *)

HeadTypeOK ==
    /\ request \in HttpRequests
    /\ arrived \in 0 .. Len(request.bytes)
    /\ raw \in Seq(Nat) /\ position \in Nat /\ passed \in Seq(Nat)
    /\ serving \in {"head", "websocket", "upload", "stored", "refused"}

\* What was read is what the client has sent so far, as far as it was read for
\* the head.
RawInv == Len(raw) <= arrived /\ \A i \in 1 .. Len(raw) : raw[i] = i

\* The place i is where the blank line begins.
Breaks(i) ==
    /\ i + 3 <= Len(request.bytes)
    /\ request.bytes[i] = "r" /\ request.bytes[i + 1] = "n"
    /\ request.bytes[i + 2] = "r" /\ request.bytes[i + 3] = "n"
BreaksFirst(i) == Breaks(i) /\ \A j \in 1 .. i - 1 : ~ Breaks(j)

\* While the head is read, there is no end of it in what was read.
ReadingInv ==
    serving = "head" =>
        /\ Len(raw) = arrived /\ Len(raw) <= MaxHeadLen /\ passed = <<>> /\ position = 0
        /\ \A i \in 1 .. arrived : i + 3 <= arrived => ~ Breaks(i)

\* The handshake has read up to its place in what was read, or all.
SocketInv ==
    serving = "websocket" =>
        /\ \A i \in 1 .. Len(passed) : passed[i] = i
        /\ IF position < Len(raw) THEN Len(passed) = position /\ arrived = Len(raw)
           ELSE position = Len(raw) /\ Len(passed) = arrived

\* The body is what came after the head.
BodyInv ==
    serving \in {"upload", "stored"} =>
        /\ \E i \in 1 .. arrived : /\ i + 3 <= arrived /\ BreaksFirst(i)
                                   /\ Len(passed) = arrived - i - 3
                                   /\ \A j \in 1 .. Len(passed) : passed[j] = i + 3 + j
        /\ serving = "stored" => Len(passed) >= request.length \/ Coming = 0

\* A request that was refused for its length has more than that before its
\* head ends.
LimitInv ==
    /\ Len(raw) <= MaxHeadLen + ChunkSize
    /\ serving = "refused" /\ request.kind # "malformed" /\ Coming > 0 =>
          /\ arrived > MaxHeadLen
          /\ \A i \in 1 .. arrived : i + 3 <= arrived => ~ Breaks(i)

HeadInv == HeadTypeOK /\ RawInv /\ ReadingInv /\ SocketInv /\ BodyInv /\ LimitInv

\* Bytes off the socket after what there is.
LEMMA TakesBytes ==
    ASSUME HeadTypeOK, NEW s \in Seq(Nat), NEW n \in Nat
    PROVE  /\ s \o TakenBytes(n) \in Seq(Nat) /\ Len(s \o TakenBytes(n)) = Len(s) + n
           /\ \A i \in 1 .. Len(s) : (s \o TakenBytes(n))[i] = s[i]
           /\ \A i \in 1 .. n : (s \o TakenBytes(n))[Len(s) + i] = arrived + i
<1>1. arrived \in Nat
    BY HeadAssumption DEF HeadTypeOK
<1> DEFINE t == TakenBytes(n)
<1>2. t \in Seq(Nat) /\ Len(t) = n /\ \A i \in 1 .. n : t[i] = arrived + i
  <2>1. PICK a \in Nat : a = arrived
    BY <1>1
  <2>2. PICK u : u = [i \in 1 .. n |-> a + i]
    OBVIOUS
  <2>3. \A i \in 1 .. n : a + i \in Nat
    OBVIOUS
  <2>4. u \in Seq(Nat) /\ Len(u) = n /\ \A i \in 1 .. n : u[i] = a + i
    BY <2>2, <2>3
  <2>5. t = u
    BY <2>1, <2>2 DEF TakenBytes
  <2> HIDE DEF t
  <2> QED
    BY <2>1, <2>4, <2>5
<1> HIDE DEF t
<1>3. /\ s \o t \in Seq(Nat) /\ Len(s \o t) = Len(s) + n
      /\ \A i \in 1 .. Len(s) + n : (s \o t)[i] = IF i <= Len(s) THEN s[i] ELSE t[i - Len(s)]
    BY <1>2, ConcatProperties
<1>4. Len(s) \in Nat
    OBVIOUS
<1>5. \A i \in 1 .. Len(s) : (s \o t)[i] = s[i]
    BY <1>3, <1>4
<1>6. \A i \in 1 .. n : (s \o t)[Len(s) + i] = arrived + i
  <2>1. ASSUME NEW i \in 1 .. n PROVE (s \o t)[Len(s) + i] = t[i]
    <3>1. Len(s) + i \in 1 .. Len(s) + n /\ ~ (Len(s) + i <= Len(s)) /\ Len(s) + i - Len(s) = i
      BY <1>4
    <3> QED
      BY <1>3, <3>1
  <2> QED
    BY <1>2, <2>1
<1> QED
    BY <1>2, <1>3, <1>5, <1>6 DEF t

\* What is read of the request shows its blank line once all of it is there.
LEMMA EndsAt ==
    ASSUME HeadTypeOK, NEW s \in Seq(Nat), Len(s) <= Len(request.bytes),
           \A i \in 1 .. Len(s) : s[i] = i, NEW i \in 1 .. Len(s)
    PROVE  EndsHead(s, i) <=> i + 3 <= Len(s) /\ Breaks(i)
<1>1. Len(s) \in Nat /\ Len(request.bytes) \in Nat
    BY HeadAssumption DEF HeadTypeOK
<1>2. CASE i + 3 <= Len(s)
  <2>1. s[i] = i /\ s[i + 1] = i + 1 /\ s[i + 2] = i + 2 /\ s[i + 3] = i + 3
    BY <1>1, <1>2
  <2>2. i + 3 <= Len(request.bytes)
    BY <1>1, <1>2
  <2> QED
    BY <1>2, <2>1, <2>2 DEF EndsHead, Breaks
<1>3. CASE ~ (i + 3 <= Len(s))
    BY <1>3 DEF EndsHead
<1> QED
    BY <1>2, <1>3

LEMMA HeadEndIs ==
    ASSUME HeadTypeOK, NEW s \in Seq(Nat), Len(s) <= Len(request.bytes),
           \A i \in 1 .. Len(s) : s[i] = i, NEW last
    PROVE  /\ \A i \in HeadEnd(s, last) : i \in 1 .. Len(s) /\ i + 3 <= Len(s) /\ BreaksFirst(i)
           /\ HeadEnd(s, last) = {} => \A i \in 1 .. Len(s) : i + 3 <= Len(s) => ~ Breaks(i)
<1>0. Len(s) \in Nat
    OBVIOUS
<1>1. \A i \in 1 .. Len(s) : EndsHead(s, i) <=> i + 3 <= Len(s) /\ Breaks(i)
    BY EndsAt
<1>2. ASSUME NEW i \in HeadEnd(s, last)
      PROVE  i \in 1 .. Len(s) /\ i + 3 <= Len(s) /\ BreaksFirst(i)
  <2>1. i \in 1 .. Len(s) /\ EndsHead(s, i) /\ \A j \in 1 .. i - 1 : ~ EndsHead(s, j)
    BY DEF HeadEnd
  <2>2. i + 3 <= Len(s) /\ Breaks(i)
    BY <1>1, <2>1
  <2>3. \A j \in 1 .. i - 1 : j \in 1 .. Len(s) /\ j + 3 <= Len(s)
    BY <1>0, <2>1, <2>2
  <2>4. \A j \in 1 .. i - 1 : ~ Breaks(j)
    BY <1>1, <2>1, <2>3
  <2> QED
    BY <2>1, <2>2, <2>4 DEF BreaksFirst
<1>3. ASSUME NEW k \in 1 .. Len(s), EndsHead(s, k)
      PROVE  HeadEnd(s, last) # {}
  <2> DEFINE S == {i \in 1 .. Len(s) : EndsHead(s, i)}
  <2>1. S \in SUBSET Nat /\ S # {}
    BY <1>3
  <2> HIDE DEF S
  <2>2. PICK i \in S : \A j \in S : i <= j
    BY <2>1, HasLeast
  <2> USE DEF S
  <2>3. i \in 1 .. Len(s) /\ EndsHead(s, i)
    OBVIOUS
  <2>4. ASSUME NEW j \in 1 .. i - 1 PROVE ~ EndsHead(s, j)
    <3>1. j \in 1 .. Len(s) /\ ~ (i <= j)
      BY <1>0, <2>3
    <3> QED
      BY <2>2, <3>1
  <2> QED
    BY <2>3, <2>4 DEF HeadEnd
<1> QED
    BY <1>1, <1>2, <1>3

\* The head is as long as what comes before the first blank line, and that.
LEMMA HeadLenIs ==
    ASSUME HeadTypeOK
    PROVE  /\ \A i \in 1 .. Len(request.bytes) : BreaksFirst(i) => HeadLen = i + 3
           /\ HasHead => \E i \in 1 .. Len(request.bytes) : BreaksFirst(i)
<1>1. Len(request.bytes) \in Nat
    BY HeadAssumption DEF HeadTypeOK
<1>2. PICK n \in Nat : n = Len(request.bytes)
    BY <1>1
<1>3. Places \in Seq(Nat) /\ Len(Places) = n /\ \A i \in 1 .. n : Places[i] = i
    BY <1>2 DEF Places
<1>4. \A i \in 1 .. n : EndsHead(Places, i) <=> Breaks(i)
  <2>1. \A i \in 1 .. n : EndsHead(Places, i) <=> i + 3 <= n /\ Breaks(i)
    BY <1>2, <1>3, EndsAt
  <2> QED
    BY <1>2, <2>1 DEF Breaks
<1> DEFINE Q(i) == EndsHead(Places, i) /\ \A k \in 1 .. i - 1 : ~ EndsHead(Places, k)
<1>5. \A i \in 1 .. n : Q(i) <=> BreaksFirst(i)
  <2>1. \A i \in 1 .. n : \A k \in 1 .. i - 1 : k \in 1 .. n
    BY <1>2
  <2> QED
    BY <1>4, <2>1 DEF BreaksFirst
<1>6. HeadLen = 3 + CHOOSE i \in 1 .. n : Q(i)
    BY <1>2 DEF HeadLen
<1>7. ASSUME NEW i \in 1 .. n, BreaksFirst(i)
      PROVE  HeadLen = i + 3
  <2>1. Q(i)
    BY <1>5, <1>7
  <2>2. PICK c : c = CHOOSE j \in 1 .. n : Q(j)
    OBVIOUS
  <2> HIDE DEF Q
  <2>3. c \in 1 .. n /\ Q(c)
    BY <2>1, <2>2
  <2>4. BreaksFirst(c)
    BY <1>5, <2>3
  <2>5. ~ (c < i) /\ ~ (i < c)
    BY <1>7, <2>3, <2>4 DEF BreaksFirst
  <2> QED
    BY <1>6, <2>2, <2>3, <2>5
<1>8. ASSUME HasHead
      PROVE  \E i \in 1 .. n : BreaksFirst(i)
  <2>1. HeadEnd(Places, 0) # {}
    <3>1. PICK i \in 1 .. n : Breaks(i)
      BY <1>2, <1>4, <1>8 DEF HasHead
    <3>2. i + 3 <= n
      BY <1>2, <3>1 DEF Breaks
    <3>3. HeadEnd(Places, 0) = {} => \A j \in 1 .. n : j + 3 <= n => ~ Breaks(j)
      <4>1. Len(Places) <= Len(request.bytes) /\ \A j \in 1 .. Len(Places) : Places[j] = j
        BY <1>2, <1>3
      <4>2. HeadEnd(Places, 0) = {} =>
                \A j \in 1 .. Len(Places) : j + 3 <= Len(Places) => ~ Breaks(j)
        BY <1>3, <4>1, HeadEndIs
      <4> QED
        BY <1>3, <4>2
    <3> QED
      BY <3>1, <3>2, <3>3
  <2> QED
    BY <1>2, <1>3, <2>1, HeadEndIs
<1> QED
    BY <1>2, <1>7, <1>8

\* What the next step finds.
LEMMA HeadFacts ==
    ASSUME HeadInv
    PROVE  /\ arrived \in Nat /\ Len(request.bytes) \in Nat /\ ChunkSize \in Nat \ {0}
           /\ MaxHeadLen \in Nat /\ request.length \in Nat /\ Len(raw) \in Nat
           /\ Len(passed) \in Nat /\ Coming = Len(request.bytes) - arrived
           /\ request.kind \in {"upgrade", "upload", "malformed"}
BY HeadAssumption DEF HeadInv, HeadTypeOK, Coming

LEMMA HeadIsRead ==
    ASSUME HeadInv, NEW n \in 1 .. ChunkSize, ReadHead(n)
    PROVE  HeadInv'
<1>0. /\ serving = "head" /\ arrived' = arrived + n /\ n <= Coming /\ UNCHANGED <<request, position>>
      /\ n \in Nat /\ n > 0 /\ n <= ChunkSize
    BY HeadFacts DEF ReadHead, TakeBytes
<1>1. PICK read \in Seq(Nat) : /\ read = raw \o TakenBytes(n) /\ Len(read) = arrived'
                               /\ \A i \in 1 .. Len(read) : read[i] = i
  <2>1. PICK read : read = raw \o TakenBytes(n)
    OBVIOUS
  <2>2. /\ read \in Seq(Nat) /\ Len(read) = Len(raw) + n
        /\ \A i \in 1 .. Len(raw) : read[i] = raw[i]
        /\ \A i \in 1 .. n : read[Len(raw) + i] = arrived + i
    BY <1>0, <2>1, TakesBytes DEF HeadInv, HeadTypeOK
  <2>3. Len(raw) = arrived /\ \A i \in 1 .. Len(raw) : raw[i] = i
    BY <1>0 DEF HeadInv, ReadingInv, RawInv
  <2>4. ASSUME NEW i \in 1 .. Len(read) PROVE read[i] = i
    <3>1. CASE i <= Len(raw)
      BY <2>2, <2>3, <3>1, HeadFacts
    <3>2. CASE ~ (i <= Len(raw))
      <4>1. i - Len(raw) \in 1 .. n /\ Len(raw) + (i - Len(raw)) = i
        BY <1>0, <2>2, <3>2, HeadFacts
      <4> QED
        BY <2>2, <2>3, <4>1
    <3> QED
      BY <3>1, <3>2
  <2> QED
    BY <1>0, <2>1, <2>2, <2>3, <2>4
<1>2. PICK ends : ends = HeadEnd(read, n)
    OBVIOUS
<1>3. /\ raw' = read
      /\ serving' = CASE ends = {} -> IF Len(read) > MaxHeadLen THEN "refused" ELSE "head"
                      [] ends # {} /\ request.kind = "malformed" -> "refused"
                      [] ends # {} /\ request.kind = "upgrade" -> "websocket"
                      [] ends # {} /\ request.kind = "upload" -> "upload"
      /\ passed' = IF serving' = "upload"
                   THEN BodyPrefix(read, CHOOSE i \in ends : TRUE) ELSE <<>>
    BY <1>1, <1>2 DEF ReadHead
<1>4. arrived' \in 0 .. Len(request.bytes) /\ Len(read) <= Len(request.bytes)
    BY <1>0, <1>1, HeadFacts
<1>5. /\ \A i \in ends : i \in 1 .. arrived' /\ i + 3 <= arrived' /\ BreaksFirst(i)
      /\ ends = {} => \A i \in 1 .. arrived' : i + 3 <= arrived' => ~ Breaks(i)
  <2>1. /\ \A i \in ends : i \in 1 .. Len(read) /\ i + 3 <= Len(read) /\ BreaksFirst(i)
        /\ ends = {} => \A i \in 1 .. Len(read) : i + 3 <= Len(read) => ~ Breaks(i)
    BY <1>1, <1>2, <1>4, HeadEndIs DEF HeadInv
  <2> QED
    BY <1>1, <2>1
<1>6. RawInv' /\ Len(raw') <= MaxHeadLen + ChunkSize
  <2>1. Len(raw) = arrived /\ arrived <= MaxHeadLen
    BY <1>0 DEF HeadInv, ReadingInv
  <2>2. Len(raw') <= MaxHeadLen + ChunkSize
    BY <1>0, <1>1, <1>3, <2>1, HeadFacts
  <2>3. Len(raw') <= arrived'
    BY <1>1, <1>3, <1>4, HeadFacts
  <2> QED
    BY <1>1, <1>3, <2>2, <2>3 DEF RawInv
<1>7. <<>> \in Seq(Nat) /\ Len(<<>>) = 0
    BY EmptySeq
<1>8. position = 0
    BY <1>0 DEF HeadInv, ReadingInv
<1>9. CASE serving' # "upload"
  <2>1. passed' = <<>> /\ raw' \in Seq(Nat) /\ position' = 0
    BY <1>0, <1>1, <1>3, <1>8, <1>9
  <2>2. \/ ends = {} /\ Len(read) > MaxHeadLen /\ serving' = "refused"
        \/ ends = {} /\ ~ (Len(read) > MaxHeadLen) /\ serving' = "head"
        \/ request.kind = "malformed" /\ serving' = "refused"
        \/ serving' = "websocket"
    BY <1>3, <1>9, HeadFacts
  <2>3. HeadTypeOK'
    BY <1>0, <1>4, <1>7, <2>1, <2>2 DEF HeadInv, HeadTypeOK
  <2>4. ReadingInv'
    <3>1. CASE serving' # "head"
      BY <3>1 DEF ReadingInv
    <3>2. CASE serving' = "head"
      <4>1. ends = {} /\ ~ (Len(read) > MaxHeadLen)
        BY <2>2, <3>2
      <4>2. Len(raw') = arrived' /\ Len(raw') <= MaxHeadLen
        BY <1>0, <1>1, <1>3, <4>1, HeadFacts
      <4>3. \A i \in 1 .. arrived' : i + 3 <= arrived' => ~ Breaks(i)'
        BY <1>0, <1>5, <4>1 DEF Breaks
      <4> QED
        BY <2>1, <4>2, <4>3 DEF ReadingInv
    <3> QED
      BY <3>1, <3>2
  <2>5. SocketInv'
    BY SMTT(30), <1>0, <1>1, <1>3, <1>7, <2>1, HeadFacts DEF SocketInv
  <2>6. BodyInv'
    BY <2>2 DEF BodyInv
  <2>7. LimitInv'
    BY <1>0, <1>1, <1>3, <1>5, <1>6, <2>2, HeadFacts DEF LimitInv, Breaks
  <2> QED
    BY <1>6, <2>3, <2>4, <2>5, <2>6, <2>7 DEF HeadInv
<1>10. CASE serving' = "upload"
  <2>1. ends # {}
    BY <1>3, <1>10
  <2>2. PICK i \in ends : i = CHOOSE j \in ends : TRUE
    BY <2>1
  <2>3. i \in 1 .. arrived' /\ i + 3 <= arrived' /\ BreaksFirst(i)
    BY <1>5, <2>2
  <2>4. passed' = SubSeq(read, i + 4, Len(read))
    BY <1>3, <1>10, <2>2 DEF BodyPrefix
  <2>5. \A j \in i + 4 .. Len(read) : read[j] = j /\ read[j] \in Nat
    <3>1. PICK k \in Nat : k = i + 4
      BY <2>3
    <3>2. PICK m \in Nat : m = Len(read)
      BY <1>1
    <3>3. \A j \in k .. m : j \in 1 .. m
      BY <2>3, <3>1
    <3>4. \A j \in 1 .. m : read[j] = j /\ j \in Nat
      BY <1>1, <3>2
    <3> QED
      BY <3>1, <3>2, <3>3, <3>4
  <2>6. /\ passed' \in Seq(Nat)
        /\ Len(passed') = IF i + 4 <= Len(read) THEN Len(read) - (i + 4) + 1 ELSE 0
        /\ \A j \in 1 .. Len(read) - (i + 4) + 1 : passed'[j] = read[i + 4 + j - 1]
    <3>1. i + 4 \in Int /\ Len(read) \in Int
      BY <1>1, <2>3
    <3>2. \A j \in i + 4 .. Len(read) : read[j] \in Nat
      BY <2>5
    <3> QED
      BY <2>4, <3>1, <3>2, SubSeqProperties
  <2>7. Len(passed') = arrived' - i - 3
    BY <1>1, <2>3, <2>6
  <2>8. \A j \in 1 .. Len(passed') : passed'[j] = i + 3 + j
    <3>1. ASSUME NEW j \in 1 .. Len(passed')
          PROVE  /\ j \in 1 .. Len(read) - (i + 4) + 1 /\ i + 4 + j - 1 \in i + 4 .. Len(read)
                 /\ i + 4 + j - 1 = i + 3 + j
      BY <1>1, <2>3, <2>7
    <3> QED
      BY <2>5, <2>6, <3>1
  <2>9. HeadTypeOK'
    BY <1>0, <1>1, <1>3, <1>4, <1>10, <2>6 DEF HeadInv, HeadTypeOK
  <2>10. BodyInv'
    BY <1>0, <1>10, <2>3, <2>7, <2>8 DEF BodyInv, BreaksFirst, Breaks
  <2>11. ReadingInv' /\ SocketInv' /\ LimitInv'
    BY <1>6, <1>10 DEF ReadingInv, SocketInv, LimitInv
  <2> QED
    BY <1>6, <2>9, <2>10, <2>11 DEF HeadInv
<1> QED
    BY <1>9, <1>10

\* The handshake reads on, from what was read before or from the socket.
LEMMA HandshakeReads ==
    ASSUME HeadInv, NEW n \in 1 .. ChunkSize, Replay(n) \/ ReadOn(n)
    PROVE  HeadInv'
<1>0. serving = "websocket" /\ UNCHANGED <<request, raw, serving>> /\ n \in Nat /\ n > 0
    BY HeadFacts DEF Replay, ReadOn
<1>1. /\ \A i \in 1 .. Len(passed) : passed[i] = i
      /\ IF position < Len(raw) THEN Len(passed) = position /\ arrived = Len(raw)
         ELSE position = Len(raw) /\ Len(passed) = arrived
      /\ position \in Nat /\ \A i \in 1 .. Len(raw) : raw[i] = i
      /\ raw \in Seq(Nat) /\ passed \in Seq(Nat)
    BY <1>0 DEF HeadInv, HeadTypeOK, SocketInv, RawInv
<1>2. PICK more \in Seq(Nat) :
         /\ passed' = passed \o more /\ Len(more) = n
         /\ \A i \in 1 .. n : more[i] = Len(passed) + i
         /\ \/ position' = position + n /\ arrived' = arrived /\ position + n <= Len(raw)
               /\ position < Len(raw)
            \/ position' = position /\ arrived' = arrived + n /\ n <= Coming
               /\ ~ (position < Len(raw))
  <2>1. CASE Replay(n)
    <3>1. PICK more : more = SubSeq(raw, position + 1, position + n)
      OBVIOUS
    <3>2. /\ passed' = passed \o more /\ position' = position + n /\ arrived' = arrived
          /\ position < Len(raw) /\ position + n <= Len(raw)
      BY <1>0, <1>1, <2>1, <3>1, HeadFacts DEF Replay, Advance
    <3>3. PICK first \in Nat, last \in Nat :
             first = position + 1 /\ last = position + n /\ last = first + n - 1
      BY <1>0, <1>1
    <3>4. PICK source \in Seq(Nat) : source = raw
      BY <1>1
    <3>5. last <= Len(source) /\ 1 <= first /\ first <= last
      BY <1>0, <1>1, <3>2, <3>3, <3>4
    <3>6. \A j \in first .. last : source[j] = j /\ source[j] \in Nat
      <4>1. \A j \in first .. last : j \in 1 .. Len(source)
        BY <3>5
      <4> QED
        BY <1>1, <3>4, <4>1
    <3>7. /\ more \in Seq(Nat)
          /\ Len(more) = IF first <= last THEN last - first + 1 ELSE 0
          /\ \A i \in 1 .. last - first + 1 : more[i] = source[first + i - 1]
      <4>1. more = SubSeq(source, first, last)
        BY <3>1, <3>3, <3>4
      <4>2. \A j \in first .. last : source[j] \in Nat
        BY <3>6
      <4>3. SubSeq(source, first, last) \in Seq(Nat)
        BY <4>2, SubSeqProperties
      <4>4. /\ Len(SubSeq(source, first, last)) = IF first <= last THEN last - first + 1 ELSE 0
            /\ \A i \in 1 .. last - first + 1 :
                  SubSeq(source, first, last)[i] = source[first + i - 1]
        BY <4>2, SubSeqProperties
      <4> QED
        BY <4>1, <4>3, <4>4
    <3>8. Len(more) = n
      BY <1>0, <3>3, <3>5, <3>7
    <3>9. ASSUME NEW i \in 1 .. n PROVE more[i] = Len(passed) + i
      <4>1. /\ i \in 1 .. last - first + 1 /\ first + i - 1 \in first .. last
            /\ first + i - 1 = position + i
        BY <1>0, <1>1, <3>3
      <4>2. Len(passed) = position
        BY <1>1, <3>2
      <4> QED
        BY <3>6, <3>7, <4>1, <4>2
    <3> QED
      BY <3>2, <3>7, <3>8, <3>9
  <2>2. CASE ReadOn(n)
    <3>1. PICK more : more = TakenBytes(n)
      OBVIOUS
    <3>2. /\ passed' = passed \o more /\ position' = position /\ arrived' = arrived + n
          /\ ~ (position < Len(raw)) /\ n <= Coming
      BY <1>1, <2>2, <3>1, HeadFacts DEF ReadOn, TakeBytes
    <3>3. PICK a \in Nat : a = arrived /\ a = Len(passed)
      BY <1>1, <3>2, HeadFacts
    <3>4. more = [i \in 1 .. n |-> a + i]
      BY <3>1, <3>3 DEF TakenBytes
    <3>5. \A i \in 1 .. n : a + i \in Nat
      OBVIOUS
    <3>6. more \in Seq(Nat) /\ Len(more) = n /\ \A i \in 1 .. n : more[i] = a + i
      BY <1>0, <3>4, <3>5
    <3> QED
      BY <3>2, <3>3, <3>6
  <2> QED
    BY <2>1, <2>2
<1>3. /\ passed' \in Seq(Nat) /\ Len(passed') = Len(passed) + n
      /\ \A i \in 1 .. Len(passed) + n :
            passed'[i] = IF i <= Len(passed) THEN passed[i] ELSE more[i - Len(passed)]
    BY <1>1, <1>2, ConcatProperties
<1>4. \A i \in 1 .. Len(passed') : passed'[i] = i
  <2>1. ASSUME NEW i \in 1 .. Len(passed') PROVE passed'[i] = i
    <3>1. CASE i <= Len(passed)
      <4>1. i \in 1 .. Len(passed) /\ i \in 1 .. Len(passed) + n
        BY <1>3, <3>1, HeadFacts
      <4>2. passed'[i] = passed[i]
        BY <1>3, <3>1, <4>1
      <4> QED
        BY <1>1, <4>1, <4>2
    <3>2. CASE ~ (i <= Len(passed))
      <4>1. PICK k \in Nat : k = Len(passed)
        BY HeadFacts
      <4>2. i \in 1 .. k + n /\ ~ (i <= k)
        BY <1>3, <3>2, <4>1
      <4>3. i - k \in 1 .. n /\ k + (i - k) = i
        BY <1>0, <4>2
      <4>4. passed'[i] = more[i - k]
        BY <1>3, <4>1, <4>2
      <4>5. more[i - k] = k + (i - k)
        BY <1>2, <4>1, <4>3
      <4> QED
        BY <4>3, <4>4, <4>5
    <3> QED
      BY <3>1, <3>2
  <2> QED
    BY <2>1
<1>5. /\ arrived' \in 0 .. Len(request.bytes) /\ arrived <= arrived' /\ position' \in Nat
      /\ IF position' < Len(raw) THEN Len(passed') = position' /\ arrived' = Len(raw)
         ELSE position' = Len(raw) /\ Len(passed') = arrived'
  <2>1. arrived <= Len(request.bytes)
    BY HeadFacts DEF HeadInv, HeadTypeOK
  <2>2. PICK a \in Nat, b \in Nat, w \in Nat, p \in Nat, q \in Nat :
           /\ a = arrived /\ b = Len(request.bytes) /\ w = Len(raw) /\ p = position
           /\ q = Len(passed)
    BY <1>1, HeadFacts
  <2>3. /\ a <= b /\ Coming = b - a /\ Len(passed') = q + n
        /\ IF p < w THEN q = p /\ a = w ELSE p = w /\ q = a
    BY <1>1, <1>3, <2>1, <2>2, HeadFacts
  <2>4. CASE position' = position + n /\ arrived' = arrived /\ position + n <= Len(raw)
               /\ position < Len(raw)
    <3>1. position' = p + n /\ arrived' = a /\ p + n <= w /\ p < w
      BY <2>2, <2>4
    <3>2. q = p /\ a = w /\ Len(passed') = p + n /\ (~ (p + n < w) => p + n = w)
      BY <1>0, <2>3, <3>1
    <3>3. arrived' \in 0 .. b /\ a <= arrived' /\ position' \in Nat
      BY <1>0, <2>3, <3>1
    <3>4. CASE p + n < w
      BY <2>2, <3>1, <3>2, <3>3, <3>4
    <3>5. CASE ~ (p + n < w)
      BY <2>2, <3>1, <3>2, <3>3, <3>5
    <3> QED
      BY <3>4, <3>5
  <2>5. CASE position' = position /\ arrived' = arrived + n /\ n <= Coming
               /\ ~ (position < Len(raw))
    <3>1. position' = p /\ arrived' = a + n /\ n <= b - a /\ ~ (p < w)
      BY <2>2, <2>3, <2>5
    <3>2. p = w /\ Len(passed') = a + n /\ arrived' \in 0 .. b /\ a <= arrived'
      BY <1>0, <2>3, <3>1
    <3> QED
      BY <2>2, <3>1, <3>2
  <2> QED
    BY <1>2, <2>4, <2>5
<1>6. HeadTypeOK'
    BY <1>0, <1>3, <1>5 DEF HeadInv, HeadTypeOK
<1>7. RawInv'
    BY <1>0, <1>5, HeadFacts DEF HeadInv, HeadTypeOK, RawInv
<1>8. SocketInv'
    BY <1>0, <1>4, <1>5 DEF SocketInv
<1>9. ReadingInv' /\ BodyInv' /\ LimitInv'
    BY <1>0 DEF HeadInv, ReadingInv, BodyInv, LimitInv
<1> QED
    BY <1>6, <1>7, <1>8, <1>9 DEF HeadInv

\* So does the upload of the body.
LEMMA BodyReads ==
    ASSUME HeadInv, NEW n \in 1 .. ChunkSize, ReadBody(n)
    PROVE  HeadInv'
<1>0. /\ serving = "upload" /\ UNCHANGED <<request, raw, serving, position>>
      /\ n \in Nat /\ n > 0 /\ n <= Coming /\ arrived' = arrived + n
      /\ passed' = passed \o TakenBytes(n)
    BY HeadFacts DEF ReadBody, TakeBytes
<1>1. /\ passed' \in Seq(Nat) /\ Len(passed') = Len(passed) + n
      /\ \A i \in 1 .. Len(passed) : passed'[i] = passed[i]
      /\ \A i \in 1 .. n : passed'[Len(passed) + i] = arrived + i
    BY <1>0, TakesBytes DEF HeadInv, HeadTypeOK
<1>2. PICK i \in 1 .. arrived : /\ i + 3 <= arrived /\ BreaksFirst(i)
                                /\ Len(passed) = arrived - i - 3
                                /\ \A j \in 1 .. Len(passed) : passed[j] = i + 3 + j
    BY <1>0 DEF HeadInv, BodyInv
<1>3. ASSUME NEW j \in 1 .. Len(passed') PROVE passed'[j] = i + 3 + j
  <2>1. CASE j <= Len(passed)
    BY <1>1, <1>2, <2>1, HeadFacts
  <2>2. CASE ~ (j <= Len(passed))
    <3>1. PICK k \in Nat, a \in Nat : k = Len(passed) /\ a = arrived
      BY HeadFacts
    <3>2. j \in 1 .. k + n /\ ~ (j <= k) /\ i \in 1 .. a /\ k = a - i - 3
      BY <1>1, <1>2, <2>2, <3>1
    <3>3. j - k \in 1 .. n /\ k + (j - k) = j /\ a + (j - k) = i + 3 + j
      BY <1>0, <3>2
    <3>4. passed'[k + (j - k)] = a + (j - k)
      BY <1>1, <3>1, <3>3
    <3> QED
      BY <3>3, <3>4
  <2> QED
    BY <2>1, <2>2
<1>4. /\ i \in 1 .. arrived' /\ i + 3 <= arrived' /\ Len(passed') = arrived' - i - 3
      /\ arrived' \in 0 .. Len(request.bytes) /\ arrived <= arrived'
  <2>1. PICK k \in Nat, a \in Nat, b \in Nat :
           k = Len(passed) /\ a = arrived /\ b = Len(request.bytes)
    BY HeadFacts
  <2>2. i \in 1 .. a /\ i + 3 <= a /\ k = a - i - 3 /\ n <= b - a
    BY <1>0, <1>2, <2>1, HeadFacts
  <2>3. arrived' = a + n /\ Len(passed') = k + n
    BY <1>0, <1>1, <2>1
  <2> QED
    BY <1>0, <1>2, <2>1, <2>2, <2>3
<1>5. HeadTypeOK'
    BY <1>0, <1>1, <1>4 DEF HeadInv, HeadTypeOK
<1>6. RawInv'
    BY <1>0, <1>4, HeadFacts DEF HeadInv, HeadTypeOK, RawInv
<1>7. BodyInv'
    BY <1>0, <1>2, <1>3, <1>4 DEF BodyInv, BreaksFirst, Breaks
<1>8. ReadingInv' /\ SocketInv' /\ LimitInv'
    BY <1>0 DEF HeadInv, ReadingInv, SocketInv, LimitInv
<1> QED
    BY <1>5, <1>6, <1>7, <1>8 DEF HeadInv

\* A request that is over, one way or the other.
LEMMA HeadEnds ==
    ASSUME HeadInv, HeadCutOff \/ StoreBody
    PROVE  HeadInv'
<1>0. UNCHANGED <<request, arrived, raw, position, passed>>
    BY DEF HeadCutOff, StoreBody
<1>1. \/ serving = "head" /\ serving' = "refused" /\ Coming = 0
      \/ /\ serving = "upload" /\ serving' = "stored"
         /\ Len(passed) >= request.length \/ Coming = 0
    BY DEF HeadCutOff, StoreBody
<1>2. Coming' = Coming
    BY <1>0 DEF Coming
<1>3. HeadTypeOK' /\ RawInv'
    BY <1>0, <1>1 DEF HeadInv, HeadTypeOK, RawInv
<1>4. ReadingInv' /\ SocketInv'
    BY <1>1 DEF ReadingInv, SocketInv
<1>5. BodyInv'
    BY <1>0, <1>1, <1>2 DEF HeadInv, BodyInv, BreaksFirst, Breaks
<1>6. LimitInv'
    BY <1>0, <1>1, <1>2 DEF HeadInv, LimitInv
<1> QED
    BY <1>3, <1>4, <1>5, <1>6 DEF HeadInv

\* For any request, cut into reads in any way: the handshake reads all of it,
\* a body is what follows the head, and a head is refused for its length only
\* when it has it (ws/http.rs, ws/connection.rs).
THEOREM HeadsEnd == HeadSpec => []HeadEndsWhereItEnds
<1>1. HeadInit => HeadInv
  <2> SUFFICES ASSUME HeadInit PROVE HeadInv
    OBVIOUS
  <2>1. <<>> \in Seq(Nat) /\ Len(<<>>) = 0
    BY EmptySeq
  <2>2. Len(request.bytes) \in Nat /\ MaxHeadLen \in Nat /\ ChunkSize \in Nat
    BY HeadAssumption DEF HeadInit
  <2> QED
    BY <2>1, <2>2 DEF HeadInit, HeadInv, HeadTypeOK, RawInv, ReadingInv, SocketInv, BodyInv, LimitInv
<1>2. HeadInv /\ [HeadNext]_headVars => HeadInv'
  <2> SUFFICES ASSUME HeadInv, [HeadNext]_headVars PROVE HeadInv'
    OBVIOUS
  <2>1. CASE UNCHANGED headVars
    <3>1. Coming' = Coming
      BY <2>1 DEF headVars, Coming
    <3> QED
      BY <2>1, <3>1 DEF headVars, HeadInv, HeadTypeOK, RawInv, ReadingInv, SocketInv, BodyInv,
                        LimitInv, BreaksFirst, Breaks
  <2> QED
    BY <2>1, HeadIsRead, HandshakeReads, BodyReads, HeadEnds DEF HeadNext
<1>3. HeadInv => HeadEndsWhereItEnds
  <2> SUFFICES ASSUME HeadInv PROVE HeadEndsWhereItEnds
    OBVIOUS
  <2>0. HeadTypeOK /\ arrived <= Len(request.bytes)
    BY DEF HeadInv, HeadTypeOK
  <2>1. HandshakeReadsAll
    BY DEF HandshakeReadsAll, HeadInv, SocketInv
  <2>2. BodyIsCutOff
    <3> SUFFICES ASSUME serving \in {"upload", "stored"} PROVE BodyIsCutOff
      BY DEF BodyIsCutOff
    <3>1. PICK i \in 1 .. arrived : /\ BreaksFirst(i) /\ Len(passed) = arrived - i - 3
                                    /\ \A j \in 1 .. Len(passed) : passed[j] = i + 3 + j
      BY DEF HeadInv, BodyInv
    <3>2. HeadLen = i + 3
      <4>1. i \in 1 .. Len(request.bytes)
        BY <2>0, <3>1, HeadFacts
      <4> QED
        BY <2>0, <3>1, <4>1, HeadLenIs
    <3>3. ASSUME serving = "stored", Len(request.bytes) = HeadLen + request.length
          PROVE  Len(passed) = request.length
      <4>1. Len(passed) >= request.length \/ Coming = 0
        BY <3>3 DEF HeadInv, BodyInv
      <4> QED
        BY SMTT(30), <2>0, <3>1, <3>2, <3>3, <4>1, HeadFacts
    <3> QED
      BY <3>1, <3>2, <3>3 DEF BodyIsCutOff
  <2>3. HeadIsBounded
    <3>1. ASSUME serving = "refused", request.kind # "malformed", Coming > 0, HasHead
          PROVE  HeadLen > MaxHeadLen
      <4>1. PICK i \in 1 .. Len(request.bytes) : BreaksFirst(i) /\ HeadLen = i + 3
        BY <2>0, <3>1, HeadLenIs
      <4>2. arrived > MaxHeadLen /\ \A j \in 1 .. arrived : j + 3 <= arrived => ~ Breaks(j)
        BY <3>1 DEF HeadInv, LimitInv
      <4>3. ~ (i + 3 <= arrived)
        BY <4>1, <4>2, HeadFacts DEF BreaksFirst
      <4> QED
        BY <4>1, <4>2, <4>3, HeadFacts
    <3> QED
      BY <3>1 DEF HeadIsBounded, HeadInv, LimitInv
  <2> QED
    BY <2>1, <2>2, <2>3 DEF HeadEndsWhereItEnds
<1> QED
    BY <1>1, <1>2, <1>3, PTL DEF HeadSpec

-----------------------------------------------------------------------------
(* The named credentials.                                                  *)

Credential == [network : Networks \cup {None}, secret : Secrets \cup {None}]
NamedEntry == [id : CredentialIds, network : Networks \cup {None}, secret : Secrets \cup {None}]
CredentialList == [default : Credential, more : Seq(NamedEntry)]

\* A name is listed once, and none that is reserved.
NamesOnce(more) ==
    \A i, j \in 1 .. Len(more) : more[i].id.name = more[j].id.name => i = j
Unreserved(more) ==
    \A i \in 1 .. Len(more) : more[i].id.name \notin {"default", "delete", ""}

\* The password was sent for this network.
Sent(e, by) ==
    e.network # None => [network |-> e.network, secret |-> e.secret] \in by /\ e.secret # ""
AllSent(list, by) == Sent(list.default, by) /\ \A i \in 1 .. Len(list.more) : Sent(list.more[i], by)

GoodList(list) == list \in CredentialList /\ NamesOnce(list.more) /\ Unreserved(list.more)

\* In memory and in config.json.
CredInv ==
    /\ GoodList(wifi) /\ GoodList(thread)
    /\ saved \in [wifi : CredentialList, thread : CredentialList]
    /\ GoodList(saved.wifi) /\ GoodList(saved.thread)
    /\ AllSent(wifi, given) /\ AllSent(saved.wifi, given)

\* Whatever is kept was there, under its name, in the order it was in.
KeepsSome(kept, more, n) ==
    /\ kept \in Seq(NamedEntry)
    /\ \A k \in 1 .. Len(kept) : \E j \in 1 .. n : kept[k] = more[j]
    /\ NamesOnce(kept)

LEMMA RetainedIsThere ==
    ASSUME NEW more \in Seq(NamedEntry), NEW id
    PROVE  /\ Retained(more, id)[0] = <<>>
           /\ \A n \in 1 .. Len(more) :
                 Retained(more, id)[n] =
                     IF SameId(more[n].id, id) THEN Retained(more, id)[n - 1]
                     ELSE Append(Retained(more, id)[n - 1], more[n])
<1>1. PICK m \in Nat : m = Len(more)
    OBVIOUS
<1> DEFINE Step(g, i) ==
        IF i = 0 THEN <<>>
        ELSE IF SameId(more[i].id, id) THEN g[i - 1]
        ELSE Append(g[i - 1], more[i])
    Follows(g, n) == g = [i \in 0 .. n |-> Step(g, i)]
    Missing == {n \in 0 .. m : ~ \E g : Follows(g, n)}
<1>2. Missing = {}
  <2>1. SUFFICES ASSUME Missing # {} PROVE FALSE
    OBVIOUS
  <2>2. Missing \in SUBSET Nat
    OBVIOUS
  <2>3. PICK n \in Missing : \A k \in Missing : n <= k
    <3> HIDE DEF Missing
    <3> QED
      BY <2>1, <2>2, HasLeast
  <2>4. n \in 0 .. m /\ ~ \E g : Follows(g, n)
    OBVIOUS
  <2>5. CASE n = 0
    <3>1. Follows([i \in 0 .. 0 |-> <<>>], 0)
      OBVIOUS
    <3> QED
      BY <2>4, <2>5, <3>1
  <2>6. CASE n # 0
    <3>1. n - 1 \in 0 .. m /\ ~ (n <= n - 1)
      BY <2>4, <2>6
    <3>2. PICK g : Follows(g, n - 1)
      BY <2>3, <3>1
    <3>3. PICK h : h = [i \in 0 .. n |-> IF i = n THEN Step(g, n) ELSE g[i]]
      OBVIOUS
    <3>4. ASSUME NEW i \in 0 .. n PROVE h[i] = Step(h, i)
      <4>1. i # 0 => i - 1 \in 0 .. n - 1 /\ i - 1 \in 0 .. n /\ i - 1 # n
        BY <2>4, <2>6
      <4>2. i # 0 => h[i - 1] = g[i - 1]
        BY <3>3, <4>1
      <4>3. Step(h, i) = Step(g, i)
        BY <4>2
      <4>4. h[i] = Step(g, i)
        <5>1. CASE i = n
          BY <3>3, <5>1
        <5>2. CASE i # n
          <6>1. i \in 0 .. n - 1
            BY <2>4, <5>2
          <6>2. g[i] = Step(g, i)
            BY <3>2, <6>1
          <6> QED
            BY <3>3, <5>2, <6>2
        <5> QED
          BY <5>1, <5>2
      <4> QED
        BY <4>3, <4>4
    <3>5. Follows(h, n)
      BY <3>3, <3>4
    <3> QED
      BY <2>4, <3>5
  <2> QED
    BY <2>5, <2>6
<1>3. \E g : Follows(g, m)
  <2> HIDE DEF Follows
  <2>1. m \in 0 .. m
    BY <1>1
  <2> QED
    BY <1>2, <2>1
<1>4. Retained(more, id) = CHOOSE g : Follows(g, m)
    BY <1>1 DEF Retained
<1>5. PICK f : f = Retained(more, id) /\ Follows(f, m)
  <2>1. PICK f : f = CHOOSE g : Follows(g, m)
    OBVIOUS
  <2>2. f = Retained(more, id)
    BY <1>4, <2>1
  <2>3. Follows(f, m)
    <3> HIDE DEF Follows
    <3> QED
      BY <1>3, <2>1
  <2> QED
    BY <2>2, <2>3
<1>6. \A i \in 0 .. m : f[i] = Step(f, i)
    BY <1>5
<1>7. f[0] = <<>>
  <2>1. 0 \in 0 .. m
    OBVIOUS
  <2>2. f[0] = Step(f, 0)
    <3> HIDE DEF Step
    <3> QED
      BY <1>6, <2>1
  <2> QED
    BY <2>2
<1>8. ASSUME NEW n \in 1 .. m
      PROVE  f[n] = IF SameId(more[n].id, id) THEN f[n - 1] ELSE Append(f[n - 1], more[n])
  <2>1. n \in 0 .. m /\ n # 0
    OBVIOUS
  <2>2. f[n] = Step(f, n)
    <3> HIDE DEF Step
    <3> QED
      BY <1>6, <2>1
  <2> QED
    BY <2>1, <2>2
<1> QED
    BY <1>1, <1>5, <1>7, <1>8

\* What is left after a removal: some of the entries, each once.
LEMMA RetainedKeepsSome ==
    ASSUME NEW more \in Seq(NamedEntry), NamesOnce(more), NEW id
    PROVE  KeepsSome(Retained(more, id)[Len(more)], more, Len(more))
<1>1. PICK m \in Nat : m = Len(more)
    OBVIOUS
<1>2. PICK f : f = Retained(more, id)
    OBVIOUS
<1>3. /\ f[0] = <<>>
      /\ \A n \in 1 .. m : f[n] = IF SameId(more[n].id, id) THEN f[n - 1]
                                  ELSE Append(f[n - 1], more[n])
    BY <1>1, <1>2, RetainedIsThere
<1> DEFINE Bad == {n \in 0 .. m : ~ KeepsSome(f[n], more, n)}
<1>4. Bad = {}
  <2>1. SUFFICES ASSUME Bad # {} PROVE FALSE
    OBVIOUS
  <2>2. Bad \in SUBSET Nat
    OBVIOUS
  <2>3. PICK n \in Bad : \A k \in Bad : n <= k
    <3> HIDE DEF Bad
    <3> QED
      BY <2>1, <2>2, HasLeast
  <2>4. n \in 0 .. m /\ ~ KeepsSome(f[n], more, n)
    OBVIOUS
  <2>5. CASE n = 0
    <3>1. <<>> \in Seq(NamedEntry) /\ Len(<<>>) = 0
      BY EmptySeq
    <3>2. KeepsSome(<<>>, more, 0)
      BY <3>1 DEF KeepsSome, NamesOnce
    <3> QED
      BY <1>3, <2>4, <2>5, <3>2
  <2>6. CASE n # 0
    <3>1. n \in 1 .. m /\ n - 1 \in 0 .. m /\ ~ (n <= n - 1)
      BY <2>4, <2>6
    <3>2. KeepsSome(f[n - 1], more, n - 1)
      BY <2>3, <3>1
    <3>3. PICK g : g = f[n - 1]
      OBVIOUS
    <3>4. /\ g \in Seq(NamedEntry) /\ Len(g) \in Nat /\ NamesOnce(g)
          /\ \A k \in 1 .. Len(g) : \E j \in 1 .. n - 1 : g[k] = more[j]
      BY <3>2, <3>3 DEF KeepsSome
    <3>5. \A k \in 1 .. Len(g) : \E j \in 1 .. n : g[k] = more[j]
      <4>1. \A j \in 1 .. n - 1 : j \in 1 .. n
        BY <3>1
      <4> QED
        BY <3>4, <4>1
    <3>6. KeepsSome(g, more, n)
      BY <3>4, <3>5 DEF KeepsSome
    <3>7. ASSUME NEW h, h = Append(g, more[n])
          PROVE  KeepsSome(h, more, n)
      <4>1. more[n] \in NamedEntry
        BY <1>1, <3>1
      <4>2. /\ h \in Seq(NamedEntry) /\ Len(h) = Len(g) + 1 /\ h[Len(g) + 1] = more[n]
            /\ \A k \in 1 .. Len(g) : h[k] = g[k]
        BY <3>4, <3>7, <4>1, AppendProperties
      <4>3. \A k \in 1 .. Len(h) : k \in 1 .. Len(g) \/ k = Len(g) + 1
        BY <3>4, <4>2
      <4>4. \A k \in 1 .. Len(h) : \E j \in 1 .. n : h[k] = more[j]
        <5>1. n \in 1 .. n
          BY <3>1
        <5> QED
          BY <3>5, <4>2, <4>3, <5>1
      <4>5. ASSUME NEW k \in 1 .. Len(g), h[k].id.name = more[n].id.name
            PROVE  FALSE
        <5>1. PICK j \in 1 .. n - 1 : g[k] = more[j]
          BY <3>4
        <5>2. more[j].id.name = more[n].id.name
          BY <4>2, <4>5, <5>1
        <5>3. j \in 1 .. m /\ n \in 1 .. m /\ j # n
          BY <3>1, <5>1
        <5> QED
          BY <1>1, <5>2, <5>3 DEF NamesOnce
      <4>6. ASSUME NEW k \in 1 .. Len(h), NEW l \in 1 .. Len(h), h[k].id.name = h[l].id.name
            PROVE  k = l
        <5>1. CASE k \in 1 .. Len(g) /\ l \in 1 .. Len(g)
          BY <3>4, <4>2, <4>6, <5>1 DEF NamesOnce
        <5>2. CASE k \in 1 .. Len(g) /\ l = Len(g) + 1
          BY <4>2, <4>5, <4>6, <5>2
        <5>3. CASE k = Len(g) + 1 /\ l \in 1 .. Len(g)
          BY <4>2, <4>5, <4>6, <5>3
        <5> QED
          BY <4>3, <5>1, <5>2, <5>3
      <4>7. NamesOnce(h)
        BY <4>6 DEF NamesOnce
      <4> QED
        BY <4>2, <4>4, <4>7 DEF KeepsSome
    <3>8. f[n] = g \/ f[n] = Append(g, more[n])
      BY <1>3, <3>1, <3>3
    <3> QED
      BY <2>4, <3>6, <3>7, <3>8
  <2> QED
    BY <2>5, <2>6
<1>5. KeepsSome(f[m], more, m)
  <2> HIDE DEF KeepsSome
  <2>1. m \in 0 .. m
    BY <1>1
  <2> QED
    BY <1>4, <2>1
<1> QED
    BY <1>1, <1>2, <1>5

LEMMA RemovedIsGood ==
    ASSUME NEW list, GoodList(list), NEW id, NEW by
    PROVE  GoodList(Removed(list, id)) /\ (AllSent(list, by) => AllSent(Removed(list, id), by))
<1>1. list \in CredentialList /\ NamesOnce(list.more) /\ Unreserved(list.more)
    BY DEF GoodList
<1>2. CASE SameId(id, DefaultId)
  <2>1. PICK new : new = [list EXCEPT !.default = NoEntry] /\ new = Removed(list, id)
    BY <1>2 DEF Removed
  <2>2. NoEntry \in Credential /\ NoEntry.network = None
    BY DEF NoEntry, Credential
  <2>3. new \in CredentialList /\ new.more = list.more /\ new.default = NoEntry
    BY <1>1, <2>1, <2>2 DEF CredentialList
  <2> QED
    BY <1>1, <2>1, <2>2, <2>3 DEF GoodList, AllSent, Sent
<1>3. CASE ~ SameId(id, DefaultId)
  <2>1. PICK more \in Seq(NamedEntry) : more = list.more
    BY <1>1 DEF CredentialList
  <2>2. PICK kept : kept = Retained(more, id)[Len(more)]
    OBVIOUS
  <2>3. KeepsSome(kept, more, Len(more))
    BY <1>1, <2>1, <2>2, RetainedKeepsSome
  <2>4. PICK new : new = [list EXCEPT !.more = kept] /\ new = Removed(list, id)
    BY <1>3, <2>1, <2>2 DEF Removed
  <2>5. kept \in Seq(NamedEntry)
    BY <2>3 DEF KeepsSome
  <2>6. new \in CredentialList /\ new.more = kept /\ new.default = list.default
    BY <1>1, <2>4, <2>5 DEF CredentialList
  <2>7. NamesOnce(kept) /\ \A k \in 1 .. Len(kept) : \E j \in 1 .. Len(more) : kept[k] = more[j]
    BY <2>3 DEF KeepsSome
  <2>8. Unreserved(kept)
    BY <1>1, <2>1, <2>7 DEF Unreserved
  <2>9. AllSent(list, by) => AllSent(new, by)
    BY <2>1, <2>6, <2>7 DEF AllSent
  <2> QED
    BY <2>4, <2>6, <2>7, <2>8, <2>9 DEF GoodList
<1> QED
    BY <1>2, <1>3

\* An id to set an entry under.
Settled(id) ==
    id \in CredentialIds /\ (id # DefaultId => id.name \notin {"default", "delete", ""})

LEMMA PutIsGood ==
    ASSUME NEW list, GoodList(list), NEW id, Settled(id), NEW entry \in Credential, NEW by
    PROVE  /\ GoodList(Put(list, id, entry))
           /\ AllSent(list, by) /\ Sent(entry, by) => AllSent(Put(list, id, entry), by)
<1>1. list \in CredentialList /\ NamesOnce(list.more) /\ Unreserved(list.more)
    BY DEF GoodList
<1>2. CASE id = DefaultId
  <2>1. PICK new : new = [list EXCEPT !.default = entry] /\ new = Put(list, id, entry)
    BY <1>2 DEF Put
  <2>2. new \in CredentialList /\ new.more = list.more /\ new.default = entry
    BY <1>1, <2>1 DEF CredentialList
  <2> QED
    BY <1>1, <2>1, <2>2 DEF GoodList, AllSent
<1>3. CASE id # DefaultId
  <2>1. PICK more \in Seq(NamedEntry) : more = list.more
    BY <1>1 DEF CredentialList
  <2>2. PICK e : e = [id |-> id, network |-> entry.network, secret |-> entry.secret]
    OBVIOUS
  <2>3. /\ e \in NamedEntry /\ e.id = id /\ e.network = entry.network /\ e.secret = entry.secret
        /\ id.name \notin {"default", "delete", ""}
    BY <1>3, <2>2 DEF Settled, Credential, NamedEntry
  <2>4. PICK now : now = IF Positions(more, id) # {}
                         THEN [i \in 1 .. Len(more) |-> IF i \in Positions(more, id) THEN e ELSE more[i]]
                         ELSE Append(more, e)
    OBVIOUS
  <2>5. PICK new : new = [list EXCEPT !.more = now] /\ new = Put(list, id, entry)
    BY <1>3, <2>1, <2>2, <2>4 DEF Put
  <2>6. /\ now \in Seq(NamedEntry) /\ NamesOnce(now)
        /\ \A k \in 1 .. Len(now) : now[k] = e \/ \E j \in 1 .. Len(more) : now[k] = more[j]
    <3>1. CASE Positions(more, id) # {}
      <4>1. PICK m \in Nat : m = Len(more)
        OBVIOUS
      <4>2. now = [i \in 1 .. m |-> IF i \in Positions(more, id) THEN e ELSE more[i]]
        BY <2>4, <3>1, <4>1
      <4>3. \A i \in 1 .. m : (IF i \in Positions(more, id) THEN e ELSE more[i]) \in NamedEntry
        <5>1. \A i \in 1 .. m : more[i] \in NamedEntry
          BY <4>1
        <5> QED
          BY <2>3, <5>1
      <4>4. now \in Seq(NamedEntry) /\ Len(now) = m
        BY <4>2, <4>3
      <4>5. \A i \in 1 .. m : now[i] = IF i \in Positions(more, id) THEN e ELSE more[i]
        BY <4>2
      <4>6. \A i \in 1 .. m : now[i].id.name = more[i].id.name
        BY <2>3, <4>5 DEF Positions, SameId
      <4>7. NamesOnce(now)
        BY <1>1, <2>1, <4>1, <4>4, <4>6 DEF NamesOnce
      <4> QED
        BY <4>1, <4>4, <4>5, <4>7
    <3>2. CASE Positions(more, id) = {}
      <4>1. /\ now \in Seq(NamedEntry) /\ Len(now) = Len(more) + 1 /\ now[Len(more) + 1] = e
            /\ \A k \in 1 .. Len(more) : now[k] = more[k]
        <5>1. now = Append(more, e) /\ e \in NamedEntry
          BY <2>3, <2>4, <3>2
        <5> QED
          BY <5>1, AppendProperties
      <4>2. \A k \in 1 .. Len(now) : k \in 1 .. Len(more) \/ k = Len(more) + 1
        BY <4>1
      <4>3. \A k \in 1 .. Len(more) : more[k].id.name # id.name
        BY <3>2 DEF Positions, SameId
      <4>4. ASSUME NEW k \in 1 .. Len(now), NEW l \in 1 .. Len(now), now[k].id.name = now[l].id.name
            PROVE  k = l
        <5>1. CASE k \in 1 .. Len(more) /\ l \in 1 .. Len(more)
          BY <1>1, <2>1, <4>1, <4>4, <5>1 DEF NamesOnce
        <5>2. CASE k \in 1 .. Len(more) /\ l = Len(more) + 1
          BY <2>3, <4>1, <4>3, <4>4, <5>2
        <5>3. CASE k = Len(more) + 1 /\ l \in 1 .. Len(more)
          BY <2>3, <4>1, <4>3, <4>4, <5>3
        <5> QED
          BY <4>2, <5>1, <5>2, <5>3
      <4>5. NamesOnce(now)
        BY <4>4 DEF NamesOnce
      <4> QED
        BY <4>1, <4>2, <4>5
    <3> QED
      BY <3>1, <3>2
  <2>7. new \in CredentialList /\ new.more = now /\ new.default = list.default
    BY <1>1, <2>5, <2>6 DEF CredentialList
  <2>8. Unreserved(now)
    BY <1>1, <2>1, <2>3, <2>6 DEF Unreserved
  <2>9. ASSUME AllSent(list, by), Sent(entry, by)
        PROVE  AllSent(new, by)
    <3>1. Sent(e, by)
      BY <2>3, <2>9 DEF Sent
    <3>2. \A k \in 1 .. Len(now) : Sent(now[k], by)
      BY <2>1, <2>6, <2>9, <3>1 DEF AllSent
    <3> QED
      BY <2>7, <2>9, <3>2 DEF AllSent
  <2> QED
    BY <2>5, <2>6, <2>7, <2>8, <2>9 DEF GoodList
<1> QED
    BY <1>2, <1>3

\* A name that is listed leads back to its entry, and no other leads to more
\* than what is stored.
LEMMA LookupIs ==
    ASSUME NEW list, GoodList(list)
    PROVE  /\ \A id : Lookup(list, id) \in Credential
           /\ \A id, by : AllSent(list, by) => Sent(Lookup(list, id), by)
           /\ \A i \in 1 .. Len(list.more) :
                 Lookup(list, list.more[i].id).network = list.more[i].network
<1>1. list \in CredentialList /\ NamesOnce(list.more) /\ Unreserved(list.more)
    BY DEF GoodList
<1>2. PICK more \in Seq(NamedEntry) : more = list.more
    BY <1>1 DEF CredentialList
<1>3. /\ NoEntry \in Credential /\ NoEntry.network = None /\ list.default \in Credential
      /\ \A i \in 1 .. Len(more) : more[i] \in NamedEntry
    BY <1>1, <1>2 DEF NoEntry, Credential, CredentialList
<1>4. ASSUME NEW id, ~ SameId(id, DefaultId), Positions(more, id) # {}
      PROVE  \E i \in Positions(more, id) :
                Lookup(list, id) = [network |-> more[i].network, secret |-> more[i].secret]
  <2>1. Positions(more, id) \in SUBSET Nat
    BY DEF Positions
  <2>2. PICK i \in Positions(more, id) : \A j \in Positions(more, id) : i <= j
    BY <1>4, <2>1, HasLeast
  <2>3. PICK c : c = CHOOSE k \in Positions(more, id) : \A j \in Positions(more, id) : k <= j
    OBVIOUS
  <2>4. c \in Positions(more, id)
    BY <2>2, <2>3
  <2>5. Lookup(list, id) = [network |-> more[c].network, secret |-> more[c].secret]
    BY <1>2, <1>4, <2>3 DEF Lookup
  <2> QED
    BY <2>4, <2>5
<1>5. ASSUME NEW id
      PROVE  \/ Lookup(list, id) \in {list.default, NoEntry}
             \/ \E i \in 1 .. Len(more) :
                   Lookup(list, id) = [network |-> more[i].network, secret |-> more[i].secret]
  <2>1. CASE SameId(id, DefaultId) \/ Positions(more, id) = {}
    BY <1>2, <2>1 DEF Lookup
  <2>2. CASE ~ SameId(id, DefaultId) /\ Positions(more, id) # {}
    BY <1>4, <2>2 DEF Positions
  <2> QED
    BY <2>1, <2>2
<1>6. \A i \in 1 .. Len(more) : [network |-> more[i].network, secret |-> more[i].secret] \in Credential
    BY <1>3 DEF Credential, NamedEntry
<1>7. ASSUME NEW id, NEW by, AllSent(list, by)
      PROVE  Sent(Lookup(list, id), by)
  <2>1. PICK l : l = Lookup(list, id)
    OBVIOUS
  <2>2. CASE l = list.default
    BY <1>7, <2>1, <2>2 DEF AllSent
  <2>3. CASE l = NoEntry
    BY <1>3, <2>1, <2>3 DEF Sent
  <2>4. CASE l \notin {list.default, NoEntry}
    <3>1. PICK i \in 1 .. Len(more) : l = [network |-> more[i].network, secret |-> more[i].secret]
      BY <1>5, <2>1, <2>4
    <3>2. Sent(more[i], by)
      BY <1>2, <1>7, <3>1 DEF AllSent
    <3>3. l.network = more[i].network /\ l.secret = more[i].secret
      BY <3>1
    <3> QED
      BY <2>1, <3>2, <3>3 DEF Sent
  <2> QED
    BY <2>2, <2>3, <2>4
<1>8. ASSUME NEW i \in 1 .. Len(more)
      PROVE  Lookup(list, more[i].id).network = more[i].network
  <2>1. more[i].id.name \notin {"default", "delete", ""} /\ i \in Positions(more, more[i].id)
    BY <1>1, <1>2 DEF Unreserved, Positions, SameId
  <2>2. ~ SameId(more[i].id, DefaultId)
    BY <2>1 DEF SameId, DefaultId
  <2>3. \A j \in Positions(more, more[i].id) : j = i
    BY <1>1, <1>2 DEF NamesOnce, Positions, SameId
  <2>4. PICK k \in Positions(more, more[i].id) :
           Lookup(list, more[i].id) = [network |-> more[k].network, secret |-> more[k].secret]
    BY <1>4, <2>1, <2>2
  <2>5. k = i
    BY <2>3
  <2> QED
    BY <2>4, <2>5
<1> QED
    BY <1>2, <1>3, <1>5, <1>6, <1>7, <1>8

\* The ids of a list that is sent, all different.
LEMMA SummaryIdsDiffer ==
    ASSUME NEW list, GoodList(list),
           NEW i \in 1 .. Len(SummaryIds(list)), NEW j \in 1 .. Len(SummaryIds(list)),
           SummaryIds(list)[i].name = SummaryIds(list)[j].name
    PROVE  i = j
<1>1. list \in CredentialList /\ NamesOnce(list.more) /\ Unreserved(list.more)
    BY DEF GoodList
<1>2. PICK more \in Seq(NamedEntry) : more = list.more
    BY <1>1 DEF CredentialList
<1>3. PICK m \in Nat : m = Len(more)
    OBVIOUS
<1>4. PICK first : first = <<DefaultId>>
    OBVIOUS
<1>5. PICK ids : ids = [k \in 1 .. m |-> more[k].id]
    OBVIOUS
<1>6. DefaultId \in CredentialIds /\ DefaultId.name = "default"
    BY CredentialAssumption DEF DefaultId, CredentialIds
<1>7. first \in Seq(CredentialIds) /\ Len(first) = 1 /\ first[1] = DefaultId
    BY <1>4, <1>6
<1>8. ids \in Seq(CredentialIds) /\ Len(ids) = m /\ \A k \in 1 .. m : ids[k] = more[k].id
  <2>1. \A k \in 1 .. m : more[k] \in NamedEntry
    BY <1>3
  <2>2. \A k \in 1 .. m : more[k].id \in CredentialIds
    <3>1. \A e \in NamedEntry : e.id \in CredentialIds
      BY DEF NamedEntry
    <3> QED
      BY <2>1, <3>1
  <2> QED
    BY <1>5, <2>2
<1>9. /\ Len(first \o ids) = 1 + m
      /\ \A k \in 1 .. 1 + m : (first \o ids)[k] = IF k <= 1 THEN first[k] ELSE ids[k - 1]
  <2>1. first \in Seq(CredentialIds) /\ ids \in Seq(CredentialIds)
    BY <1>7, <1>8
  <2>2. /\ Len(first \o ids) = Len(first) + Len(ids)
        /\ \A k \in 1 .. Len(first) + Len(ids) :
              (first \o ids)[k] = IF k <= Len(first) THEN first[k] ELSE ids[k - Len(first)]
    BY <2>1, ConcatProperties
  <2> QED
    BY <1>7, <1>8, <2>2
<1>10. SummaryIds(list) = first \o ids
    BY <1>2, <1>3, <1>4, <1>5 DEF SummaryIds
<1>11. i \in 1 .. 1 + m /\ j \in 1 .. 1 + m
    BY <1>9, <1>10
<1>12. \A k \in 1 .. 1 + m : \/ k = 1 /\ SummaryIds(list)[k].name = "default"
                             \/ k - 1 \in 1 .. m /\ SummaryIds(list)[k].name = more[k - 1].id.name
  <2>1. ASSUME NEW k \in 1 .. 1 + m
        PROVE  \/ k = 1 /\ SummaryIds(list)[k].name = "default"
               \/ k - 1 \in 1 .. m /\ SummaryIds(list)[k].name = more[k - 1].id.name
    <3>1. CASE k = 1
      <4>1. SummaryIds(list)[k] = DefaultId
        BY <1>7, <1>9, <1>10, <3>1
      <4> QED
        BY <1>6, <3>1, <4>1
    <3>2. CASE k # 1
      <4>1. k - 1 \in 1 .. m /\ ~ (k <= 1)
        BY <3>2
      <4>2. SummaryIds(list)[k] = more[k - 1].id
        BY <1>8, <1>9, <1>10, <4>1
      <4> QED
        BY <4>1, <4>2
    <3> QED
      BY <3>1, <3>2
  <2> QED
    BY <2>1
<1>13. \A k \in 1 .. m : more[k].id.name # "default"
    BY <1>1, <1>2, <1>3 DEF Unreserved
<1>14. CASE i = 1 \/ j = 1
  <2>1. \A k \in 1 .. 1 + m : k # 1 => SummaryIds(list)[k].name # "default"
    <3>1. ASSUME NEW k \in 1 .. 1 + m, k # 1
          PROVE  SummaryIds(list)[k].name # "default"
      <4>1. k - 1 \in 1 .. m /\ SummaryIds(list)[k].name = more[k - 1].id.name
        BY <1>12, <3>1
      <4>2. more[k - 1].id.name # "default"
        BY <1>13, <4>1
      <4> QED
        BY <4>1, <4>2
    <3> QED
      BY <3>1
  <2>2. 1 \in 1 .. 1 + m /\ SummaryIds(list)[1].name = "default"
    <3>1. 1 \in 1 .. 1 + m /\ ~ (1 - 1 \in 1 .. m)
      OBVIOUS
    <3> QED
      BY <1>12, <3>1
  <2>3. CASE i = 1
    BY <1>11, <2>1, <2>2, <2>3
  <2>4. CASE j = 1
    BY <1>11, <2>1, <2>2, <2>4
  <2> QED
    BY <1>14, <2>3, <2>4
<1>15. CASE i # 1 /\ j # 1
  <2>1. i - 1 \in 1 .. m /\ j - 1 \in 1 .. m /\ more[i - 1].id.name = more[j - 1].id.name
    BY <1>11, <1>12, <1>15
  <2>2. i - 1 = j - 1
    BY <1>1, <1>2, <1>3, <2>1 DEF NamesOnce
  <2> QED
    BY <1>11, <2>2
<1> QED
    BY <1>14, <1>15

LEMMA SettableIsSettled ==
    ASSUME NEW id \in CredentialIds, NEW list, Settable(list, id)
    PROVE  Settled(CanonicalId(id))
<1>1. DefaultId \in CredentialIds
    BY CredentialAssumption DEF DefaultId, CredentialIds
<1>2. CASE id.name = "default"
    BY <1>1, <1>2 DEF CanonicalId, Settled
<1>3. CASE id.name # "default"
  <2>1. id.name \notin {"default", "delete", ""}
    BY <1>3 DEF Settable, ValidId
  <2>2. Trimmed(id) \in CredentialIds /\ Trimmed(id).name = id.name
    BY DEF Trimmed, CredentialIds
  <2> QED
    BY <1>3, <2>1, <2>2 DEF CanonicalId, Settled
<1> QED
    BY <1>2, <1>3

\* What a step makes of memory, and what of it is saved.
LEMMA SavedIsGood ==
    ASSUME CredInv, SavesOrNot, GoodList(wifi'), GoodList(thread'),
           AllSent(wifi', given'), given \subseteq given'
    PROVE  CredInv'
<1>1. AllSent(saved.wifi, given')
    BY DEF CredInv, AllSent, Sent
<1>2. wifi' \in CredentialList /\ thread' \in CredentialList
    BY DEF GoodList
<1>3. CASE saved' = saved
    BY <1>1, <1>3 DEF CredInv
<1>4. CASE saved' = [wifi |-> wifi', thread |-> thread']
  <2>1. /\ saved' \in [wifi : CredentialList, thread : CredentialList]
        /\ saved'.wifi = wifi' /\ saved'.thread = thread'
    BY <1>2, <1>4
  <2>2. GoodList(saved'.wifi) /\ GoodList(saved'.thread) /\ AllSent(saved'.wifi, given')
    BY <2>1
  <2> QED
    BY <2>1, <2>2 DEF CredInv
<1> QED
    BY <1>3, <1>4 DEF SavesOrNot

LEMMA WifiIsSet ==
    ASSUME CredInv, NEW id \in CredentialIds, NEW network \in Networks,
           NEW secret \in Secrets \cup {None}, SetWifi(id, network, secret)
    PROVE  CredInv'
<1>1. PICK to : to = CanonicalId(id)
    OBVIOUS
<1>2. PICK kept : kept = KeptSecret(secret, Lookup(wifi, to), network)
    OBVIOUS
<1>3. /\ Settable(wifi, id) /\ kept # None
      /\ wifi' = Put(wifi, to, [network |-> network, secret |-> kept])
      /\ given' = given \cup {[network |-> network, secret |-> secret]}
      /\ thread' = thread /\ SavesOrNot
    BY <1>1, <1>2 DEF SetWifi
<1>4. Settled(to)
    BY <1>1, <1>3, SettableIsSettled
<1>5. PICK old \in Credential : old = Lookup(wifi, to) /\ Sent(old, given)
    BY LookupIs DEF CredInv
<1>6. PICK new : new = [network |-> network, secret |-> kept]
    OBVIOUS
<1>7. new.network = network /\ new.secret = kept
    BY <1>6
<1>8. new \in Credential /\ Sent(new, given')
  <2>1. CASE secret \notin {None, ""}
    <3>1. kept = secret
      BY <1>2, <2>1 DEF KeptSecret
    <3>2. new \in given'
      BY <1>3, <1>6, <3>1
    <3> QED
      BY <1>6, <1>7, <2>1, <3>1, <3>2 DEF Credential, Sent
  <2>2. CASE ~ (secret \notin {None, ""})
    <3>1. old.network = network /\ kept = old.secret
      BY <1>2, <1>3, <1>5, <2>2 DEF KeptSecret
    <3>2. new = old
      BY <1>5, <1>6, <3>1 DEF Credential
    <3> QED
      BY <1>3, <1>5, <3>2 DEF Sent
  <2> QED
    BY <2>1, <2>2
<1>9. GoodList(wifi) /\ AllSent(wifi, given')
    BY <1>3 DEF CredInv, AllSent, Sent
<1>10. GoodList(wifi') /\ AllSent(wifi', given')
    BY <1>3, <1>4, <1>6, <1>8, <1>9, PutIsGood
<1>11. GoodList(thread') /\ given \subseteq given'
    BY <1>3 DEF CredInv
<1> QED
    BY <1>3, <1>10, <1>11, SavedIsGood

LEMMA ListsChange ==
    ASSUME CredInv, NEW id \in CredentialIds,
           \/ \E dataset \in Networks : SetThread(id, dataset)
           \/ RemoveWifi(id)
           \/ RemoveThread(id)
    PROVE  CredInv'
<1>1. GoodList(wifi) /\ GoodList(thread) /\ AllSent(wifi, given)
    BY DEF CredInv
<1>2. ASSUME NEW dataset \in Networks, SetThread(id, dataset)
      PROVE  CredInv'
  <2>1. PICK new : new = [network |-> dataset, secret |-> None]
    OBVIOUS
  <2>2. new \in Credential
    BY <2>1 DEF Credential
  <2>3. /\ Settable(thread, id) /\ thread' = Put(thread, CanonicalId(id), new)
        /\ wifi' = wifi /\ given' = given /\ SavesOrNot
    BY <1>2, <2>1 DEF SetThread
  <2>4. GoodList(thread')
    BY <1>1, <2>2, <2>3, SettableIsSettled, PutIsGood
  <2>5. GoodList(wifi') /\ AllSent(wifi', given') /\ given \subseteq given'
    BY <1>1, <2>3
  <2> QED
    BY <2>3, <2>4, <2>5, SavedIsGood
<1>3. CASE RemoveWifi(id)
  <2>1. wifi' = Removed(wifi, id) /\ thread' = thread /\ given' = given /\ SavesOrNot
    BY <1>3 DEF RemoveWifi
  <2>2. GoodList(wifi') /\ AllSent(wifi', given') /\ GoodList(thread') /\ given \subseteq given'
    BY <1>1, <2>1, RemovedIsGood
  <2> QED
    BY <2>1, <2>2, SavedIsGood
<1>4. CASE RemoveThread(id)
  <2>1. thread' = Removed(thread, id) /\ wifi' = wifi /\ given' = given /\ SavesOrNot
    BY <1>4 DEF RemoveThread
  <2>2. GoodList(wifi') /\ AllSent(wifi', given') /\ GoodList(thread') /\ given \subseteq given'
    BY <1>1, <2>1, RemovedIsGood
  <2> QED
    BY <2>1, <2>2, SavedIsGood
<1> QED
    BY <1>2, <1>3, <1>4

\* A name has one entry however it is written, its password is for the network
\* that a client sent it with, and every id that is listed leads back to its
\* entry, over any sequence of sets, removals, failed saves and restarts
\* (storage/config.rs:210).
THEOREM CredentialsKept == CredSpec => []CredentialsAreKept
<1>1. CredInit => CredInv
  <2> SUFFICES ASSUME CredInit PROVE CredInv
    OBVIOUS
  <2>1. PICK list : list = NoCredentials
    OBVIOUS
  <2>2. <<>> \in Seq(NamedEntry) /\ Len(<<>>) = 0
    BY EmptySeq
  <2>3. NoEntry \in Credential /\ NoEntry.network = None
    BY DEF NoEntry, Credential
  <2>4. list \in CredentialList /\ list.more = <<>> /\ list.default = NoEntry
    BY <2>1, <2>2, <2>3 DEF NoCredentials, CredentialList
  <2>5. GoodList(list) /\ AllSent(list, given)
    <3>1. \A i \in 1 .. Len(list.more) : FALSE
      BY <2>2, <2>4
    <3>2. NamesOnce(list.more) /\ Unreserved(list.more)
      BY <3>1 DEF NamesOnce, Unreserved
    <3>3. AllSent(list, given)
      BY <2>3, <2>4, <3>1 DEF AllSent, Sent
    <3> QED
      BY <2>4, <3>2, <3>3 DEF GoodList
  <2>6. wifi = list /\ thread = list /\ saved = [wifi |-> list, thread |-> list]
    BY <2>1 DEF CredInit
  <2>7. /\ saved \in [wifi : CredentialList, thread : CredentialList]
        /\ saved.wifi = list /\ saved.thread = list
    BY <2>4, <2>6
  <2> QED
    BY <2>5, <2>6, <2>7 DEF CredInv
<1>2. CredInv /\ [CredNext]_credVars => CredInv'
  <2> SUFFICES ASSUME CredInv, [CredNext]_credVars PROVE CredInv'
    OBVIOUS
  <2>1. CASE CredRestart
    <3>1. wifi' = saved.wifi /\ thread' = saved.thread /\ saved' = saved /\ given' = given
      BY <2>1 DEF CredRestart
    <3> QED
      BY <3>1 DEF CredInv
  <2>2. CASE UNCHANGED credVars
    <3>1. wifi' = wifi /\ thread' = thread /\ saved' = saved /\ given' = given
      BY <2>2 DEF credVars
    <3> QED
      BY <3>1 DEF CredInv
  <2> QED
    BY <2>1, <2>2, WifiIsSet, ListsChange DEF CredNext
<1>3. CredInv => CredentialsAreKept
  <2> SUFFICES ASSUME CredInv PROVE CredentialsAreKept
    OBVIOUS
  <2>1. SecretsStayWithTheirNetwork
    <3>1. PICK more \in Seq(NamedEntry) : more = wifi.more
      BY DEF CredInv, GoodList, CredentialList
    <3>2. wifi.default = [network |-> wifi.default.network, secret |-> wifi.default.secret]
      BY DEF CredInv, GoodList, CredentialList, Credential
    <3>3. ASSUME wifi.default.network # None
          PROVE  wifi.default \in given /\ wifi.default.secret # ""
      BY <3>2, <3>3 DEF CredInv, AllSent, Sent
    <3>4. ASSUME NEW i \in 1 .. Len(more), NEW e,
                 e = [network |-> more[i].network, secret |-> more[i].secret], e.network # None
          PROVE  e \in given /\ e.secret # ""
      <4>1. e.network = more[i].network /\ e.secret = more[i].secret
        BY <3>4
      <4> QED
        BY <3>1, <3>4, <4>1 DEF CredInv, AllSent, Sent
    <3> QED
      BY <3>1, <3>3, <3>4 DEF SecretsStayWithTheirNetwork
  <2>2. EveryListedIdLeadsBack
    <3>1. ASSUME NEW list \in {wifi, thread}
          PROVE  /\ GoodList(list) /\ Unreserved(list.more)
                 /\ \A i, j \in 1 .. Len(SummaryIds(list)) :
                       SummaryIds(list)[i].name = SummaryIds(list)[j].name => i = j
                 /\ \A i \in 1 .. Len(list.more) :
                       Lookup(list, list.more[i].id).network = list.more[i].network
      <4>1. GoodList(list)
        BY DEF CredInv
      <4>2. Unreserved(list.more)
        BY <4>1 DEF GoodList
      <4> QED
        BY <4>1, <4>2, SummaryIdsDiffer, LookupIs
    <3> QED
      BY <3>1 DEF EveryListedIdLeadsBack, Unreserved
  <2> QED
    BY <2>1, <2>2 DEF CredentialsAreKept
<1> QED
    BY <1>1, <1>2, <1>3, PTL DEF CredSpec

-----------------------------------------------------------------------------
(* The names in an answer.                                                 *)

NameTypeOK ==
    /\ cells \in [1 .. NameLength -> NameCells]
    /\ walk \in [at : Nat \ {0}, labels : Seq(Nat), jumps : Nat, end : Nat,
                 state : {"walking", "name", "none"}]

\* Between two pointers the walk goes forward, so that it reads no more labels
\* than there are cells.
BoundInv ==
    /\ walk.state = "walking" => walk.jumps <= MaxJumps
    /\ Len(walk.labels) <= NameLength * walk.jumps + (walk.at - 1)
    /\ Len(walk.labels) <= NameLength * walk.jumps + NameLength

\* Up to its first pointer or its end, the name is as written.
WrittenInv ==
    /\ walk.end = 0 =>
          /\ walk.state # "name" /\ walk.jumps = 0
          /\ \A i \in 1 .. walk.at - 1 : i \in 1 .. NameLength /\ cells[i].kind = "label"
    /\ walk.end # 0 =>
          /\ walk.end - 1 \in 1 .. NameLength /\ cells[walk.end - 1].kind # "label"
          /\ \A i \in 1 .. walk.end - 2 : cells[i].kind = "label"

WalkInv == NameTypeOK /\ BoundInv /\ WrittenInv

LEMMA WalkStarts == NameInit => WalkInv
<1>1. SUFFICES ASSUME NameInit PROVE WalkInv
    OBVIOUS
<1>2. PICK none : none = <<>>
    OBVIOUS
<1>3. none \in Seq(Nat) /\ Len(none) = 0
    BY <1>2, EmptySeq
<1>4. walk = [at |-> 1, labels |-> none, jumps |-> 0, end |-> 0, state |-> "walking"]
    BY <1>1, <1>2 DEF NameInit, Start
<1>5. NameTypeOK
    BY <1>1, <1>3, <1>4 DEF NameInit, NameTypeOK
<1>6. NameLength \in Nat /\ MaxJumps \in Nat
    BY BrowserAssumption
<1> QED
    BY <1>3, <1>4, <1>5, <1>6 DEF WalkInv, BoundInv, WrittenInv

LEMMA WalkFields ==
    ASSUME WalkInv
    PROVE  /\ walk.at \in Nat \ {0} /\ walk.labels \in Seq(Nat) /\ Len(walk.labels) \in Nat
           /\ walk.jumps \in Nat /\ walk.end \in Nat /\ NameLength \in Nat /\ MaxJumps \in Nat
           /\ NameLength * walk.jumps \in Nat /\ DOMAIN cells = 1 .. NameLength
           /\ \A i \in 1 .. NameLength :
                 cells[i].kind = "pointer" => cells[i].to \in Nat \ {0}
<1>1. walk.at \in Nat \ {0} /\ walk.labels \in Seq(Nat) /\ walk.jumps \in Nat /\ walk.end \in Nat
    BY DEF WalkInv, NameTypeOK
<1>2. NameLength \in Nat /\ MaxJumps \in Nat
    BY BrowserAssumption
<1>3. DOMAIN cells = 1 .. NameLength /\ \A i \in 1 .. NameLength : cells[i] \in NameCells
    BY DEF WalkInv, NameTypeOK
<1>4. \A i \in 1 .. NameLength : cells[i].kind = "pointer" => cells[i].to \in Nat \ {0}
    BY <1>3, BrowserAssumption
<1> QED
    BY <1>1, <1>2, <1>3, <1>4

\* A step keeps the type when the fields it changes have theirs.
LEMMA WalkRecord ==
    ASSUME WalkInv, cells' = cells,
           walk' = [at |-> walk'.at, labels |-> walk'.labels, jumps |-> walk'.jumps,
                    end |-> walk'.end, state |-> walk'.state],
           walk'.at \in Nat \ {0}, walk'.labels \in Seq(Nat), walk'.jumps \in Nat,
           walk'.end \in Nat, walk'.state \in {"walking", "name", "none"}
    PROVE  NameTypeOK'
    BY DEF WalkInv, NameTypeOK

\* A label, read where the walk is.
LEMMA LabelKept ==
    ASSUME WalkInv, WalkLabel
    PROVE  WalkInv'
<1>1. /\ walk.at \in 1 .. NameLength /\ cells[walk.at].kind = "label" /\ walk.state = "walking"
      /\ walk' = [walk EXCEPT !.at = @ + 1, !.labels = Append(@, walk.at)] /\ cells' = cells
    BY WalkFields DEF WalkLabel, WalkOn
<1>2. PICK labels : labels = Append(walk.labels, walk.at)
    OBVIOUS
<1>3. labels \in Seq(Nat) /\ Len(labels) = Len(walk.labels) + 1
    BY <1>2, WalkFields, AppendProperties
<1>4. /\ walk'.at = walk.at + 1 /\ walk'.labels = labels /\ walk'.jumps = walk.jumps
      /\ walk'.end = walk.end /\ walk'.state = "walking"
      /\ walk' = [at |-> walk'.at, labels |-> walk'.labels, jumps |-> walk'.jumps,
                  end |-> walk'.end, state |-> walk'.state]
    BY <1>1, <1>2 DEF WalkInv, NameTypeOK
<1>5. NameTypeOK'
  <2>1. walk.at + 1 \in Nat \ {0}
    BY WalkFields
  <2> QED
    BY <1>1, <1>3, <1>4, <2>1, WalkRecord, WalkFields
<1>6. BoundInv'
  <2>1. PICK at, n, read, len :
          /\ at = walk.at /\ n = NameLength /\ read = NameLength * walk.jumps
          /\ len = Len(walk.labels)
    OBVIOUS
  <2>2. at \in Nat /\ n \in Nat /\ read \in Nat /\ len \in Nat /\ at <= n /\ at >= 1
    BY <1>1, <2>1, WalkFields
  <2>3. len <= read + (at - 1) /\ walk.jumps <= MaxJumps
    BY <1>1, <2>1 DEF WalkInv, BoundInv
  <2>4. len + 1 <= read + (at + 1 - 1) /\ len + 1 <= read + n
    BY <2>2, <2>3
  <2>5. walk'.at = at + 1 /\ walk'.labels = labels /\ walk'.jumps = walk.jumps
    BY <1>4, <2>1
  <2>6. Len(walk'.labels) = len + 1
    BY <1>3, <2>1, <2>5
  <2>7. NameLength * walk'.jumps = read
    BY <2>1, <2>5
  <2> QED
    <3>1. Len(walk'.labels) <= read + (walk'.at - 1) /\ Len(walk'.labels) <= read + n
      BY <2>2, <2>4, <2>5, <2>6
    <3>2. Len(walk'.labels) <= NameLength * walk'.jumps + (walk'.at - 1)
      BY <2>7, <3>1, Zenon
    <3>3. Len(walk'.labels) <= NameLength * walk'.jumps + NameLength
      BY <2>1, <2>7, <3>1, Zenon
    <3>4. walk'.jumps <= MaxJumps
      BY <2>3, <2>5, Zenon
    <3> QED
      BY <3>2, <3>3, <3>4, Zenon DEF BoundInv
<1>7. WrittenInv'
    BY <1>1, <1>4, WalkFields DEF WalkInv, WrittenInv
<1> QED
    BY <1>5, <1>6, <1>7 DEF WalkInv

\* A pointer, or the end: where the name as written ends.
LEMMA EndKept ==
    ASSUME WalkInv, walk.at \in 1 .. NameLength, cells[walk.at].kind # "label",
           walk'.end = EndOfName(walk.end, walk.at + 1), cells' = cells
    PROVE  WrittenInv' /\ walk'.end \in Nat
<1>1. walk'.end = IF walk.end = 0 THEN walk.at + 1 ELSE walk.end
    BY DEF EndOfName
<1>2. PICK at \in Nat, end \in Nat, n \in Nat : at = walk.at /\ end = walk.end /\ n = NameLength
    BY WalkFields
<1>3. at \in 1 .. n /\ cells[at].kind # "label"
    BY <1>2
<1>4. CASE end = 0
  <2>1. \A i \in 1 .. at - 1 : cells[i].kind = "label"
    BY <1>2, <1>4 DEF WalkInv, WrittenInv
  <2>2. walk'.end = at + 1 /\ at + 1 - 1 = at /\ at + 1 - 2 = at - 1 /\ at + 1 # 0
    BY <1>1, <1>2, <1>4
  <2> QED
    BY <1>2, <1>3, <2>1, <2>2 DEF WrittenInv
<1>5. CASE end # 0
  <2>1. walk'.end = walk.end
    BY <1>1, <1>2, <1>5
  <2> QED
    BY <1>2, <1>5, <2>1 DEF WalkInv, WrittenInv
<1> QED
    BY <1>4, <1>5

LEMMA PointerKept ==
    ASSUME WalkInv, WalkPointer
    PROVE  WalkInv'
<1>1. PICK to, end, state :
        /\ to = cells[walk.at].to /\ end = EndOfName(walk.end, walk.at + 1)
        /\ state = IF MayJump(walk.jumps + 1) THEN walk.state ELSE "none"
    OBVIOUS
<1>2. /\ walk.at \in 1 .. NameLength /\ cells[walk.at].kind = "pointer" /\ walk.state = "walking"
      /\ walk' = [walk EXCEPT !.at = to, !.jumps = @ + 1, !.end = end, !.state = state]
      /\ cells' = cells
    BY <1>1, WalkFields DEF WalkPointer, WalkOn
<1>3. /\ walk'.at = to /\ walk'.labels = walk.labels /\ walk'.jumps = walk.jumps + 1
      /\ walk'.end = end /\ walk'.state = state
      /\ walk' = [at |-> walk'.at, labels |-> walk'.labels, jumps |-> walk'.jumps,
                  end |-> walk'.end, state |-> walk'.state]
    BY <1>2 DEF WalkInv, NameTypeOK
<1>4. to \in Nat \ {0}
    BY <1>1, <1>2, WalkFields
<1>5. WrittenInv' /\ end \in Nat
    BY <1>1, <1>2, <1>3, EndKept
<1>6. state \in {"walking", "none"} /\ (state = "walking" => walk.jumps + 1 <= MaxJumps)
    BY <1>1, <1>2 DEF MayJump
<1>7. NameTypeOK'
  <2>1. walk.jumps + 1 \in Nat
    BY WalkFields
  <2> QED
    BY <1>2, <1>3, <1>4, <1>5, <1>6, <2>1, WalkRecord, WalkFields
<1>8. BoundInv'
  <2>1. PICK read \in Nat, n \in Nat : read = NameLength * walk.jumps /\ n = NameLength
    BY WalkFields
  <2>2. NameLength * (walk.jumps + 1) = read + n
    BY <2>1, WalkFields
  <2>3. Len(walk.labels) <= read + n
    BY <2>1 DEF WalkInv, BoundInv
  <2>4. Len(walk.labels) <= read + n + (to - 1) /\ Len(walk.labels) <= read + n + n
    <3>1. PICK len \in Nat : len = Len(walk.labels)
      BY WalkFields
    <3> QED
      BY <1>4, <2>1, <2>3, <3>1
  <2> QED
    BY <1>3, <1>6, <2>1, <2>2, <2>4 DEF BoundInv
<1> QED
    BY <1>5, <1>7, <1>8 DEF WalkInv

LEMMA WalkStep == WalkInv /\ [NameNext]_nameVars => WalkInv'
<1>1. SUFFICES ASSUME WalkInv, [NameNext]_nameVars PROVE WalkInv'
    OBVIOUS
<1>2. CASE WalkEnd
  <2>1. PICK end : end = EndOfName(walk.end, walk.at + 1)
    OBVIOUS
  <2>2. /\ walk.at \in 1 .. NameLength /\ cells[walk.at].kind = "end"
        /\ walk' = [walk EXCEPT !.end = end, !.state = "name"] /\ cells' = cells
    BY <1>1, <1>2, <2>1, WalkFields DEF WalkEnd, WalkOn
  <2>3. /\ walk'.at = walk.at /\ walk'.labels = walk.labels /\ walk'.jumps = walk.jumps
        /\ walk'.end = end /\ walk'.state = "name"
    BY <1>1, <2>2 DEF WalkInv, NameTypeOK
  <2>4. WrittenInv' /\ end \in Nat
    BY <1>1, <2>1, <2>2, <2>3, EndKept
  <2>5. NameTypeOK' /\ BoundInv'
    BY <1>1, <2>2, <2>3, <2>4 DEF WalkInv, NameTypeOK, BoundInv
  <2> QED
    BY <2>4, <2>5 DEF WalkInv
<1>3. CASE WalkOff
  <2>1. walk' = [walk EXCEPT !.state = "none"] /\ cells' = cells
    BY <1>3 DEF WalkOff, WalkOn
  <2>2. /\ walk'.at = walk.at /\ walk'.labels = walk.labels /\ walk'.jumps = walk.jumps
        /\ walk'.end = walk.end /\ walk'.state = "none"
    BY <1>1, <2>1 DEF WalkInv, NameTypeOK
  <2> QED
    BY <1>1, <2>1, <2>2 DEF WalkInv, NameTypeOK, BoundInv, WrittenInv
<1>4. CASE UNCHANGED nameVars
    BY <1>1, <1>4 DEF nameVars, WalkInv, NameTypeOK, BoundInv, WrittenInv
<1> QED
    BY <1>1, <1>2, <1>3, <1>4, LabelKept, PointerKept DEF NameNext

-----------------------------------------------------------------------------
(* Browsing: the links.                                                    *)

\* No number is in the list twice.
Distinct(s) == \A i, j \in 1 .. Len(s) : s[i] = s[j] => i = j

\* A number that is not in a list may be appended.
LEMMA DistinctAppended ==
    ASSUME NEW S, NEW s \in Seq(S), Distinct(s), NEW x \in S, x \notin ToSet(s)
    PROVE  Append(s, x) \in Seq(S) /\ Distinct(Append(s, x)) /\ ToSet(Append(s, x)) = ToSet(s) \cup {x}
<1>1. Len(s) \in Nat /\ ToSet(s) = {s[i] : i \in 1 .. Len(s)}
    BY LenProperties DEF ToSet
<1>2. PICK t : t = Append(s, x)
    OBVIOUS
<1>3. /\ t \in Seq(S) /\ Len(t) = Len(s) + 1 /\ t[Len(t)] = x
      /\ \A i \in 1 .. Len(s) : t[i] = s[i]
    BY <1>2, AppendProperties
<1>4. \A i \in 1 .. Len(t) : i \in 1 .. Len(s) \/ i = Len(t)
    BY <1>1, <1>3
<1>5. ToSet(t) = {t[i] : i \in 1 .. Len(t)}
    BY <1>3, LenProperties DEF ToSet
<1>6. ToSet(t) = ToSet(s) \cup {x}
  <2>1. \A i \in 1 .. Len(s) : i \in 1 .. Len(t) /\ Len(t) \in 1 .. Len(t)
    BY <1>1, <1>3
  <2>2. ToSet(s) \cup {x} \subseteq ToSet(t)
    <3>1. Len(t) \in 1 .. Len(t)
      BY <1>1, <1>3
    <3> QED
      BY <1>1, <1>3, <1>5, <2>1, <3>1
  <2>3. ToSet(t) \subseteq ToSet(s) \cup {x}
    BY <1>1, <1>3, <1>4, <1>5
  <2> QED
    BY <2>2, <2>3
<1>7. Distinct(t)
  <2>1. SUFFICES ASSUME NEW i \in 1 .. Len(t), NEW j \in 1 .. Len(t), t[i] = t[j] PROVE i = j
    BY DEF Distinct
  <2>2. \A k \in 1 .. Len(s) : t[k] # x
    BY <1>1, <1>3
  <2>3. CASE i \in 1 .. Len(s) /\ j \in 1 .. Len(s)
    BY <1>3, <2>1, <2>3 DEF Distinct
  <2>4. CASE i = Len(t) \/ j = Len(t)
    BY <1>3, <1>4, <2>1, <2>2, <2>4
  <2> QED
    BY <1>4, <2>3, <2>4
<1> QED
    BY <1>2, <1>3, <1>6, <1>7

\* The links of a list of interfaces, each once, and 0 is none of them.
LEMMA LinksAre ==
    ASSUME NEW entries \in Interfaces
    PROVE  LinksOf(entries) \in Seq(Nat \ {0}) /\ Distinct(LinksOf(entries))
<1>1. PICK m \in Nat : m = Len(entries)
    BY BrowserAssumption, LenProperties
<1>2. \A i \in 1 .. m : entries[i].index \in Nat \ {0}
  <2>1. \A i \in 1 .. m : entries[i] \in ToSet(entries)
    BY <1>1, BrowserAssumption, LenProperties DEF ToSet
  <2> QED
    BY <2>1, BrowserAssumption
<1> DEFINE Turn(h, i) == IF HasLink(entries[i]) /\ ~ Contains(h, entries[i].index)
                         THEN Append(h, entries[i].index) ELSE h
           Loop(f) == f = [i \in 0 .. m |->
                             IF i = 0 THEN <<>>
                             ELSE IF HasLink(entries[i]) /\ ~ Contains(f[i - 1], entries[i].index)
                                  THEN Append(f[i - 1], entries[i].index) ELSE f[i - 1]]
<1>3. PICK Good : Good = [i \in 0 .. m |-> {s \in Seq(Nat \ {0}) : Distinct(s)}]
    OBVIOUS
<1>4. <<>> \in Good[0]
    BY <1>3 DEF Distinct
<1>5. ASSUME NEW i \in 1 .. m, NEW h \in Good[i - 1] PROVE Turn(h, i) \in Good[i]
  <2>1. h \in Seq(Nat \ {0}) /\ Distinct(h)
    BY <1>3
  <2>2. CASE HasLink(entries[i]) /\ ~ Contains(h, entries[i].index)
    <3>0. i \in 0 .. m
      OBVIOUS
    <3>1. PICK x \in Nat \ {0} : x = entries[i].index
      BY <1>2
    <3>2. x \notin ToSet(h)
      BY <2>1, <2>2, <3>1, LenProperties DEF Contains, ToSet
    <3>3. Append(h, x) \in Seq(Nat \ {0}) /\ Distinct(Append(h, x))
      BY <2>1, <3>2, DistinctAppended
    <3>4. Turn(h, i) = Append(h, x)
      BY <2>2, <3>1
    <3> HIDE DEF Turn
    <3> QED
      BY <1>3, <3>0, <3>3, <3>4
  <2>3. CASE ~ (HasLink(entries[i]) /\ ~ Contains(h, entries[i].index))
    BY <1>3, <2>1, <2>3
  <2> QED
    BY <2>2, <2>3
<1>6. \E f : Loop(f)
  <2>1. PICK op : op = [i \in 1 .. m |-> [h \in Good[i - 1] |-> Turn(h, i)]]
    OBVIOUS
  <2> HIDE DEF Turn
  <2>2. \A i \in 1 .. m : \A h \in Good[i - 1] : op[i][h] = Turn(h, i)
    BY <2>1
  <2>3. LeadsOn(op, Good, m)
    BY <1>5, <2>2 DEF LeadsOn
  <2>4. PICK f : LeadsFrom(f, <<>>, op, Good, m)
    BY <1>4, <2>3, GuardedLoop
  <2>5. /\ f = [i \in 0 .. m |-> f[i]] /\ f[0] = <<>>
        /\ \A i \in 0 .. m : f[i] \in Good[i]
        /\ \A i \in 1 .. m : f[i] = op[i][f[i - 1]]
    BY <2>4 DEF LeadsFrom
  <2>6. ASSUME NEW i \in 0 .. m
        PROVE  f[i] = IF i = 0 THEN <<>> ELSE Turn(f[i - 1], i)
    <3>1. i # 0 => i \in 1 .. m /\ i - 1 \in 0 .. m
      OBVIOUS
    <3> QED
      BY <2>2, <2>5, <3>1
  <2>7. f = [i \in 0 .. m |-> IF i = 0 THEN <<>> ELSE Turn(f[i - 1], i)]
    BY <2>5, <2>6
  <2> QED
    BY <2>7 DEF Turn
<1>7. PICK f : f = CHOOSE g : Loop(g)
    OBVIOUS
<1>8. Loop(f)
  <2> HIDE DEF Loop
  <2> QED
    BY <1>6, <1>7
<1>9. LinksOf(entries) = f[m]
    BY <1>1, <1>7 DEF LinksOf
<1>10. f[0] = <<>> /\ \A i \in 1 .. m : f[i] = Turn(f[i - 1], i)
  <2>1. \A i \in 0 .. m : f[i] = IF i = 0 THEN <<>> ELSE Turn(f[i - 1], i)
    BY <1>8
  <2> HIDE DEF Turn, Loop
  <2> QED
    BY <2>1
<1> HIDE DEF Loop, Turn
<1>11. \A i \in 0 .. m : f[i] \in Good[i]
    BY <1>4, <1>5, <1>10, LoopReaches
<1>12. f[m] \in Good[m] /\ m \in 0 .. m
    BY <1>11
<1>13. f[m] \in Seq(Nat \ {0}) /\ Distinct(f[m])
    BY <1>3, <1>12
<1> QED
    BY <1>9, <1>13

\* An interface has an address of a family in a list.
Lists(entries, index, family) ==
    \E e \in ToSet(entries) : e.index = index /\ e.family = family /\ e.up /\ ~ e.loopback

\* The responder has an interface with both families, if there is one.
LEMMA InterfaceIs ==
    ASSUME NEW entries \in Interfaces
    PROVE  IF SelectInterface(entries) = 0
           THEN \A e \in ToSet(entries) :
                   ~ (Lists(entries, e.index, "v4") /\ Lists(entries, e.index, "v6"))
           ELSE /\ Lists(entries, SelectInterface(entries), "v4")
                /\ Lists(entries, SelectInterface(entries), "v6")
<1>1. PICK m \in Nat : m = Len(entries)
    BY BrowserAssumption, LenProperties
<1>2. ToSet(entries) = {entries[i] : i \in 1 .. m}
    BY <1>1, BrowserAssumption, LenProperties DEF ToSet
<1>3. \A i \in 1 .. m : entries[i].index \in Nat \ {0}
    BY <1>2, BrowserAssumption
<1>4. Considered(entries) = {i \in 1 .. m : entries[i].up /\ ~ entries[i].loopback}
    BY <1>1 DEF Considered
<1>5. ASSUME NEW i \in Considered(entries), NEW family
      PROVE  family \in Addresses(entries, i) <=> Lists(entries, entries[i].index, family)
    BY <1>2, <1>4 DEF Addresses, Lists
<1>6. PICK both : both = {i \in Considered(entries) : {"v4", "v6"} \subseteq Addresses(entries, i)}
    OBVIOUS
<1>7. SelectInterface(entries) = IF both = {} THEN 0 ELSE entries[Min(both)].index
    BY <1>6 DEF SelectInterface
<1>8. CASE both = {}
  <2>1. SUFFICES ASSUME NEW e \in ToSet(entries),
                        Lists(entries, e.index, "v4"), Lists(entries, e.index, "v6")
                 PROVE  FALSE
    BY <1>7, <1>8
  <2>2. PICK i \in 1 .. m : /\ entries[i].index = e.index
                           /\ entries[i].up /\ ~ entries[i].loopback
    BY <1>2, <2>1 DEF Lists
  <2>3. i \in Considered(entries)
    BY <1>4, <2>2
  <2>4. "v4" \in Addresses(entries, i) /\ "v6" \in Addresses(entries, i)
    BY <1>5, <2>1, <2>2, <2>3
  <2> QED
    BY <1>6, <1>8, <2>3, <2>4
<1>9. CASE both # {}
  <2>1. both \in SUBSET Nat
    BY <1>4, <1>6
  <2>2. PICK i : i = Min(both)
    OBVIOUS
  <2>3. i \in both
    BY <1>9, <2>1, <2>2, MinIsLeast
  <2>4. i \in Considered(entries) /\ "v4" \in Addresses(entries, i) /\ "v6" \in Addresses(entries, i)
    BY <1>6, <2>3
  <2>5. Lists(entries, entries[i].index, "v4") /\ Lists(entries, entries[i].index, "v6")
    BY <1>5, <2>4
  <2>6. entries[i].index # 0
    BY <1>3, <1>4, <2>4
  <2>7. SelectInterface(entries) = entries[i].index
    BY <1>7, <1>9, <2>2
  <2> QED
    BY <2>5, <2>6, <2>7
<1> QED
    BY <1>8, <1>9

-----------------------------------------------------------------------------
(* Browsing: the answers.                                                  *)

Records == UNION {ToSet(answer) : answer \in Answers}
InstanceNames == {r.name : r \in Records}
Texts == UNION {r.txt : r \in Records}
Instances ==
    [port : BOOLEAN, host : {r.host : r \in Records} \cup {NoHost},
     addresses : Seq(Nat), txt : SUBSET Texts]
IsMap(map) ==
    /\ DOMAIN map \in SUBSET InstanceNames /\ IsFiniteSet(DOMAIN map)
    /\ map = [n \in DOMAIN map |-> map[n]]
    /\ \A n \in DOMAIN map : map[n] \in Instances

\* What a map says of a name.
PortIn(map, n) == n \in DOMAIN map /\ map[n].port
AddressesIn(map, n) == IF n \in DOMAIN map THEN ToSet(map[n].addresses) ELSE {}
TextIn(map, n) == IF n \in DOMAIN map THEN map[n].txt ELSE {}

\* What records tell of it.
ToldIn(done, n) ==
    UNION {r.txt : r \in {x \in done : x.type = "TXT" /\ x.name = n /\ ~ x.foreign}}
ServedIn(done, n) == \E r \in done : r.type = "SRV" /\ r.name = n /\ ~ r.foreign
NamedIn(done) == {r.name : r \in {x \in done : ~ x.foreign /\ x.type \in {"PTR", "SRV", "TXT"}}}

\* The map as the first pass over some records leaves it.
IsEstablished(new, map, done) ==
    /\ IsMap(new) /\ DOMAIN new = DOMAIN map \cup NamedIn(done)
    /\ \A n \in InstanceNames :
          /\ AddressesIn(new, n) = AddressesIn(map, n)
          /\ TextIn(new, n) = TextIn(map, n) \cup ToldIn(done, n)
          /\ PortIn(new, n) <=> PortIn(map, n) \/ ServedIn(done, n)

\* A map with an entry that a record has added to.
IsPut(new, map, name, x) ==
    /\ IsMap(new) /\ DOMAIN new = DOMAIN map \cup {name}
    /\ \A n \in InstanceNames :
          /\ AddressesIn(new, n) = AddressesIn(map, n)
          /\ n # name => /\ TextIn(new, n) = TextIn(map, n)
                         /\ PortIn(new, n) <=> PortIn(map, n)
          /\ n = name => /\ TextIn(new, n) = x.txt
                         /\ PortIn(new, n) <=> x.port

\* A record that adds to an entry.
LEMMA InstancePut ==
    ASSUME NEW map, IsMap(map), NEW name \in InstanceNames, NEW x \in Instances,
           x.addresses = Entry(map, name).addresses
    PROVE  IsPut(PutInstance(map, name, x), map, name, x)
<1>1. PICK new : new = PutInstance(map, name, x)
    OBVIOUS
<1>2. new = [n \in DOMAIN map \cup {name} |-> IF n = name THEN x ELSE map[n]]
    BY <1>1 DEF PutInstance
<1>3. DOMAIN new = DOMAIN map \cup {name} /\ new = [n \in DOMAIN new |-> new[n]]
    BY <1>2
<1>4. new[name] = x /\ \A n \in DOMAIN map : n # name => new[n] = map[n]
    BY <1>2
<1>5. IsMap(new)
  <2>1. IsFiniteSet(DOMAIN new)
    BY <1>3, FS_AddElement DEF IsMap
  <2>2. \A n \in DOMAIN new : new[n] \in Instances
    BY <1>3, <1>4 DEF IsMap
  <2>3. DOMAIN new \in SUBSET InstanceNames
    BY <1>3 DEF IsMap
  <2> QED
    BY <1>3, <2>1, <2>2, <2>3 DEF IsMap
<1>6. ASSUME NEW n \in InstanceNames, n # name
      PROVE  /\ AddressesIn(new, n) = AddressesIn(map, n) /\ TextIn(new, n) = TextIn(map, n)
             /\ PortIn(new, n) <=> PortIn(map, n)
  <2>1. n \in DOMAIN new <=> n \in DOMAIN map
    BY <1>3, <1>6
  <2>2. n \in DOMAIN map => new[n] = map[n]
    BY <1>4, <1>6
  <2> QED
    BY <2>1, <2>2 DEF AddressesIn, TextIn, PortIn
<1>7. AddressesIn(new, name) = AddressesIn(map, name)
  <2>1. AddressesIn(new, name) = ToSet(x.addresses)
    BY <1>3, <1>4 DEF AddressesIn
  <2>2. CASE name \in DOMAIN map
    BY <2>1, <2>2 DEF AddressesIn, Entry
  <2>3. CASE name \notin DOMAIN map
    <3>1. x.addresses = <<>>
      BY <2>3 DEF Entry, NoInstance
    <3>2. ToSet(x.addresses) = {}
      BY <3>1 DEF ToSet
    <3> QED
      BY <2>1, <2>3, <3>2 DEF AddressesIn
  <2> QED
    BY <2>2, <2>3
<1>8. TextIn(new, name) = x.txt /\ (PortIn(new, name) <=> x.port)
    BY <1>3, <1>4 DEF TextIn, PortIn
<1> QED
    BY <1>1, <1>3, <1>5, <1>6, <1>7, <1>8 DEF IsPut

\* What an entry has before a record adds to it.
LEMMA EntryIs ==
    ASSUME NEW map, IsMap(map), NEW name \in InstanceNames
    PROVE  /\ Entry(map, name) \in Instances
           /\ Entry(map, name).txt = TextIn(map, name)
           /\ Entry(map, name).port <=> PortIn(map, name)
<1>1. CASE name \in DOMAIN map
    BY <1>1 DEF IsMap, Entry, TextIn, PortIn
<1>2. CASE name \notin DOMAIN map
  <2>1. PICK none : none = <<>>
    OBVIOUS
  <2>2. none \in Seq(Nat)
    BY <2>1
  <2>3. NoInstance = [port |-> FALSE, host |-> NoHost, addresses |-> none, txt |-> {}]
    BY <2>1 DEF NoInstance
  <2>4. NoInstance \in Instances
    BY <2>2, <2>3 DEF Instances
  <2>5. NoInstance.txt = {} /\ ~ NoInstance.port
    BY DEF NoInstance
  <2> QED
    BY <1>2, <2>4, <2>5 DEF Entry, TextIn, PortIn
<1> QED
    BY <1>1, <1>2

\* One more record of the first pass.
LEMMA RecordEstablished ==
    ASSUME NEW r \in Records, NEW map, NEW before, NEW done, IsEstablished(map, before, done)
    PROVE  IsEstablished(Establish(map, r), before, done \cup {r})
<1>1. IsMap(map) /\ DOMAIN map = DOMAIN before \cup NamedIn(done)
    BY DEF IsEstablished
<1>2. r.name \in InstanceNames
    BY DEF InstanceNames
<1>3. \A n : /\ ToldIn(done \cup {r}, n) = ToldIn(done, n) \cup
                   (IF r.type = "TXT" /\ r.name = n /\ ~ r.foreign THEN r.txt ELSE {})
             /\ ServedIn(done \cup {r}, n) <=>
                   ServedIn(done, n) \/ (r.type = "SRV" /\ r.name = n /\ ~ r.foreign)
    BY DEF ToldIn, ServedIn
<1>4. CASE r.foreign \/ r.type \notin {"PTR", "SRV", "TXT"}
  <2>1. Establish(map, r) = map
    BY <1>4 DEF Establish
  <2>2. \A n : ToldIn(done \cup {r}, n) = ToldIn(done, n) /\ (ServedIn(done \cup {r}, n) <=> ServedIn(done, n))
    BY <1>3, <1>4
  <2>3. NamedIn(done \cup {r}) = NamedIn(done)
    BY <1>4 DEF NamedIn
  <2> QED
    BY <2>1, <2>2, <2>3 DEF IsEstablished
<1>5. CASE ~ r.foreign /\ r.type \in {"PTR", "SRV", "TXT"}
  <2>1. PICK e : e = Entry(map, r.name)
    OBVIOUS
  <2>2. e \in Instances /\ e.txt = TextIn(map, r.name) /\ (e.port <=> PortIn(map, r.name))
    BY <1>1, <1>2, <2>1, EntryIs
  <2>3. PICK x : x = CASE r.type = "PTR" -> e
                       [] r.type = "SRV" ->
                             [e EXCEPT !.port = TRUE, !.host = IF r.host = NoHost THEN @ ELSE r.host]
                       [] r.type = "TXT" -> [e EXCEPT !.txt = @ \cup r.txt]
    OBVIOUS
  <2>4. Establish(map, r) = PutInstance(map, r.name, x)
    BY <1>5, <2>1, <2>3 DEF Establish
  <2>5. /\ x \in Instances /\ x.addresses = e.addresses
        /\ x.txt = e.txt \cup (IF r.type = "TXT" THEN r.txt ELSE {})
        /\ x.port <=> e.port \/ r.type = "SRV"
    <3>1. r.host \in {q.host : q \in Records} \cup {NoHost} /\ r.txt \subseteq Texts
      BY DEF Texts
    <3>2. CASE r.type = "PTR"
      BY <2>2, <2>3, <3>2
    <3>3. CASE r.type = "SRV"
      <4>1. x = [e EXCEPT !.port = TRUE, !.host = IF r.host = NoHost THEN @ ELSE r.host]
        BY <2>3, <3>3
      <4> QED
        BY <2>2, <3>1, <3>3, <4>1 DEF Instances
    <3>4. CASE r.type = "TXT"
      <4>1. x = [e EXCEPT !.txt = @ \cup r.txt]
        BY <2>3, <3>4
      <4> QED
        BY <2>2, <3>1, <3>4, <4>1 DEF Instances
    <3> QED
      BY <1>5, <3>2, <3>3, <3>4
  <2>6. PICK new : new = PutInstance(map, r.name, x)
    OBVIOUS
  <2>7. IsPut(new, map, r.name, x)
    <3>1. x \in Instances /\ x.addresses = Entry(map, r.name).addresses
      BY <2>1, <2>5
    <3>2. IsMap(map) /\ r.name \in InstanceNames
      BY <1>1, <1>2
    <3> QED
      BY <2>6, <3>1, <3>2, InstancePut
  <2>8. ASSUME NEW n \in InstanceNames
        PROVE  /\ AddressesIn(new, n) = AddressesIn(before, n)
               /\ TextIn(new, n) = TextIn(before, n) \cup ToldIn(done \cup {r}, n)
               /\ PortIn(new, n) <=> PortIn(before, n) \/ ServedIn(done \cup {r}, n)
    <3>0. /\ AddressesIn(new, n) = AddressesIn(map, n)
          /\ n # r.name => TextIn(new, n) = TextIn(map, n) /\ (PortIn(new, n) <=> PortIn(map, n))
          /\ n = r.name => TextIn(new, n) = x.txt /\ (PortIn(new, n) <=> x.port)
      BY <2>7 DEF IsPut
    <3>1. /\ AddressesIn(map, n) = AddressesIn(before, n)
          /\ TextIn(map, n) = TextIn(before, n) \cup ToldIn(done, n)
          /\ PortIn(map, n) <=> PortIn(before, n) \/ ServedIn(done, n)
      BY DEF IsEstablished
    <3>2. CASE n # r.name
      <4>1. ToldIn(done \cup {r}, n) = ToldIn(done, n) /\ (ServedIn(done \cup {r}, n) <=> ServedIn(done, n))
        BY <1>3, <3>2
      <4> QED
        BY <3>0, <3>1, <3>2, <4>1
    <3>3. CASE n = r.name
      <4>1. /\ ToldIn(done \cup {r}, n) = ToldIn(done, n) \cup (IF r.type = "TXT" THEN r.txt ELSE {})
            /\ ServedIn(done \cup {r}, n) <=> ServedIn(done, n) \/ r.type = "SRV"
        BY <1>3, <1>5, <3>3
      <4>2. /\ TextIn(new, n) = TextIn(map, n) \cup (IF r.type = "TXT" THEN r.txt ELSE {})
            /\ PortIn(new, n) <=> PortIn(map, n) \/ r.type = "SRV"
        BY <2>2, <2>5, <3>0, <3>3
      <4> QED
        BY <3>0, <3>1, <4>1, <4>2
    <3> QED
      BY <3>2, <3>3
  <2> QED
    <3>1. NamedIn(done \cup {r}) = NamedIn(done) \cup {r.name}
      BY <1>5 DEF NamedIn
    <3>2. IsMap(new) /\ DOMAIN new = DOMAIN before \cup NamedIn(done \cup {r})
      BY <1>1, <2>7, <3>1 DEF IsPut
    <3> QED
      BY <2>4, <2>6, <2>8, <3>2 DEF IsEstablished
<1> QED
    BY <1>4, <1>5

\* The elements of a list up to a place in it.
Before(s, i) == {s[k] : k \in 1 .. i}

\* The first elements of a list.
LEMMA FirstOnes ==
    ASSUME NEW S, NEW s \in Seq(S)
    PROVE  /\ Len(s) \in Nat /\ Before(s, 0) = {} /\ Before(s, Len(s)) = ToSet(s)
           /\ \A i \in 1 .. Len(s) :
                 s[i] \in S /\ Before(s, i) = Before(s, i - 1) \cup {s[i]}
<1>1. Len(s) \in Nat /\ ToSet(s) = {s[k] : k \in 1 .. Len(s)}
    BY LenProperties DEF ToSet
<1>2. ASSUME NEW i \in 1 .. Len(s) PROVE Before(s, i) = Before(s, i - 1) \cup {s[i]}
  <2>1. \A k \in 1 .. i : k \in 1 .. i - 1 \/ k = i
    BY <1>1
  <2>2. (\A k \in 1 .. i - 1 : k \in 1 .. i) /\ i \in 1 .. i
    BY <1>1
  <2> QED
    BY <2>1, <2>2 DEF Before
<1>3. \A i \in 1 .. Len(s) : s[i] \in S
    BY ElementOfSeq
<1>4. Before(s, 0) = {}
    BY DEF Before
<1> QED
    BY <1>1, <1>2, <1>3, <1>4 DEF Before

\* The records of an answer up to a place in it.
LEMMA BeforeIs ==
    ASSUME NEW answer \in Answers
    PROVE  /\ Len(answer) \in Nat /\ Before(answer, 0) = {}
           /\ Before(answer, Len(answer)) = ToSet(answer)
           /\ \A i \in 1 .. Len(answer) :
                 /\ answer[i] \in Records
                 /\ Before(answer, i) = Before(answer, i - 1) \cup {answer[i]}
<1>1. answer \in Seq(ToSet(answer))
    BY BrowserAssumption
<1>2. ToSet(answer) \subseteq Records
    BY DEF Records
<1> QED
    BY <1>1, <1>2, FirstOnes

\* The whole first pass.
LEMMA AnswerEstablished ==
    ASSUME NEW answer \in Answers, NEW map, IsMap(map)
    PROVE  IsEstablished(Established(map, answer), map, ToSet(answer))
<1>1. PICK m \in Nat : m = Len(answer)
    BY BeforeIs
<1> DEFINE Turn(h, i) == Establish(h, answer[i])
           Loop(f) == f = [i \in 0 .. m |-> IF i = 0 THEN map ELSE Establish(f[i - 1], answer[i])]
<1>2. PICK Maps : \A h : IsMap(h) => h \in Maps
  <2>1. PICK Maps : Maps = UNION {[d -> Instances] : d \in SUBSET InstanceNames}
    OBVIOUS
  <2>2. ASSUME NEW h, IsMap(h) PROVE h \in Maps
    <3>1. h \in [DOMAIN h -> Instances] /\ DOMAIN h \in SUBSET InstanceNames
      BY <2>2 DEF IsMap
    <3> QED
      BY <2>1, <3>1
  <2> QED
    BY <2>2
<1>3. PICK Good : Good = [i \in 0 .. m |-> {h \in Maps : IsEstablished(h, map, Before(answer, i))}]
    OBVIOUS
<1>4. \A i \in 0 .. m : \A h : h \in Good[i] <=> IsEstablished(h, map, Before(answer, i))
    BY <1>2, <1>3 DEF IsEstablished
<1>5. map \in Good[0]
  <2>1. NamedIn({}) = {} /\ \A n : ToldIn({}, n) = {} /\ ~ ServedIn({}, n)
    BY DEF ToldIn, ServedIn, NamedIn
  <2>2. IsEstablished(map, map, {})
    BY <2>1 DEF IsEstablished
  <2>3. Before(answer, 0) = {} /\ 0 \in 0 .. m
    BY BeforeIs
  <2>4. IsEstablished(map, map, Before(answer, 0))
    BY <2>2, <2>3
  <2> QED
    BY <1>4, <2>3, <2>4
<1>6. ASSUME NEW i \in 1 .. m, NEW h \in Good[i - 1] PROVE Turn(h, i) \in Good[i]
  <2>1. i - 1 \in 0 .. m /\ i \in 0 .. m
    OBVIOUS
  <2>2. IsEstablished(h, map, Before(answer, i - 1))
    BY <1>4, <2>1
  <2>3. answer[i] \in Records /\ Before(answer, i) = Before(answer, i - 1) \cup {answer[i]}
    BY <1>1, BeforeIs
  <2>4. IsEstablished(Establish(h, answer[i]), map, Before(answer, i))
    BY <2>2, <2>3, RecordEstablished
  <2> QED
    BY <1>4, <2>1, <2>4
<1>7. \E f : Loop(f)
  <2>1. PICK op : op = [i \in 1 .. m |-> [h \in Good[i - 1] |-> Turn(h, i)]]
    OBVIOUS
  <2> HIDE DEF Turn
  <2>2. \A i \in 1 .. m : \A h \in Good[i - 1] : op[i][h] = Turn(h, i)
    BY <2>1
  <2>3. LeadsOn(op, Good, m)
    BY <1>6, <2>2 DEF LeadsOn
  <2>4. PICK f : LeadsFrom(f, map, op, Good, m)
    BY <1>5, <2>3, GuardedLoop
  <2>5. /\ f = [i \in 0 .. m |-> f[i]] /\ f[0] = map
        /\ \A i \in 0 .. m : f[i] \in Good[i]
        /\ \A i \in 1 .. m : f[i] = op[i][f[i - 1]]
    BY <2>4 DEF LeadsFrom
  <2>6. ASSUME NEW i \in 0 .. m
        PROVE  f[i] = IF i = 0 THEN map ELSE Turn(f[i - 1], i)
    <3>1. i # 0 => i \in 1 .. m /\ i - 1 \in 0 .. m
      OBVIOUS
    <3> QED
      BY <2>2, <2>5, <3>1
  <2>7. f = [i \in 0 .. m |-> IF i = 0 THEN map ELSE Turn(f[i - 1], i)]
    BY <2>5, <2>6
  <2> QED
    BY <2>7 DEF Turn
<1>8. PICK f : f = CHOOSE g : Loop(g)
    OBVIOUS
<1>9. Loop(f)
  <2> HIDE DEF Loop
  <2> QED
    BY <1>7, <1>8
<1>10. Established(map, answer) = f[m]
    BY <1>1, <1>8 DEF Established
<1>11. f[0] = map /\ \A i \in 1 .. m : f[i] = Turn(f[i - 1], i)
  <2>1. \A i \in 0 .. m : f[i] = IF i = 0 THEN map ELSE Turn(f[i - 1], i)
    BY <1>9
  <2> HIDE DEF Turn, Loop
  <2> QED
    BY <2>1
<1> HIDE DEF Loop, Turn
<1>12. \A i \in 0 .. m : f[i] \in Good[i]
    BY <1>5, <1>6, <1>11, LoopReaches
<1>13. f[m] \in Good[m] /\ m \in 0 .. m
    BY <1>12
<1>14. IsEstablished(f[m], map, Before(answer, m))
    BY <1>4, <1>13
<1> QED
    BY <1>1, <1>10, <1>14, BeforeIs

\* The map as the second pass over some records of an answer leaves it: an
\* address is added to what owns its host.
AddedTo(map, answer, done, n) ==
    {r.address : r \in {x \in done : x.type = "ADDRESS" /\ n \in Owner(map, answer, x.host)}}
IsAttached(new, map, answer, done) ==
    /\ IsMap(new) /\ DOMAIN new = DOMAIN map
    /\ \A n \in DOMAIN map :
          /\ new[n].port = map[n].port /\ new[n].txt = map[n].txt
          /\ ToSet(new[n].addresses) = ToSet(map[n].addresses) \cup AddedTo(map, answer, done, n)

\* One more record of the second pass.
LEMMA RecordAttached ==
    ASSUME NEW r \in Records, NEW answer, NEW map, NEW before, NEW done,
           IsAttached(map, before, answer, done)
    PROVE  IsAttached(Attach(map, answer, r), before, answer, done \cup {r})
<1>1. IsMap(map) /\ DOMAIN map = DOMAIN before
    BY DEF IsAttached
<1>2. r.address \in Nat
    BY BrowserAssumption DEF Records
<1>3. \A n : Owner(map, answer, r.host) = Owner(before, answer, r.host)
    BY <1>1 DEF Owner
<1>4. PICK new : new = Attach(map, answer, r)
    OBVIOUS
<1> DEFINE Adds(n) == /\ r.type = "ADDRESS" /\ n \in Owner(map, answer, r.host)
                      /\ ~ Contains(map[n].addresses, r.address)
<1>5. new = [n \in DOMAIN map |->
                IF Adds(n) THEN [map[n] EXCEPT !.addresses = Append(@, r.address)] ELSE map[n]]
    BY <1>4 DEF Attach
<1> HIDE DEF Adds
<1>6. DOMAIN new = DOMAIN map /\ new = [n \in DOMAIN new |-> new[n]]
    BY <1>5
<1>7. ASSUME NEW n \in DOMAIN map
      PROVE  /\ new[n] \in Instances /\ new[n].port = map[n].port /\ new[n].txt = map[n].txt
             /\ ToSet(new[n].addresses) = ToSet(map[n].addresses) \cup
                   (IF r.type = "ADDRESS" /\ n \in Owner(map, answer, r.host) THEN {r.address} ELSE {})
  <2>1. PICK x \in Instances : x = map[n]
    BY <1>1 DEF IsMap
  <2>2. PICK s \in Seq(Nat) : s = x.addresses
    BY DEF Instances
  <2>3. Len(s) \in Nat /\ ToSet(s) = {s[i] : i \in 1 .. Len(s)}
    BY LenProperties DEF ToSet
  <2>4. CASE Adds(n)
    <3>1. PICK t : t = Append(s, r.address)
      OBVIOUS
    <3>2. /\ t \in Seq(Nat) /\ Len(t) = Len(s) + 1 /\ t[Len(t)] = r.address
          /\ \A i \in 1 .. Len(s) : t[i] = s[i]
      BY <1>2, <3>1, AppendProperties
    <3>3. ToSet(t) = {t[i] : i \in 1 .. Len(t)}
      BY <3>2, LenProperties DEF ToSet
    <3>4. /\ \A i \in 1 .. Len(t) : i \in 1 .. Len(s) \/ i = Len(t)
          /\ \A i \in 1 .. Len(s) : i \in 1 .. Len(t)
          /\ Len(t) \in 1 .. Len(t)
      BY <2>3, <3>2
    <3>5. ToSet(t) \subseteq ToSet(s) \cup {r.address}
      BY <2>3, <3>2, <3>3, <3>4
    <3>6. ToSet(s) \cup {r.address} \subseteq ToSet(t)
      BY <2>3, <3>2, <3>3, <3>4
    <3>7. new[n] = [x EXCEPT !.addresses = t]
      BY <1>5, <2>1, <2>2, <2>4, <3>1
    <3>8. new[n] \in Instances /\ new[n].port = x.port /\ new[n].txt = x.txt /\ new[n].addresses = t
      BY <3>2, <3>7 DEF Instances
    <3>9. r.type = "ADDRESS" /\ n \in Owner(map, answer, r.host)
      BY <2>4 DEF Adds
    <3> QED
      BY <2>1, <2>2, <3>5, <3>6, <3>8, <3>9
  <2>5. CASE ~ Adds(n)
    <3>1. new[n] = x
      BY <1>5, <2>1, <2>5
    <3>2. r.type = "ADDRESS" /\ n \in Owner(map, answer, r.host) => r.address \in ToSet(s)
      BY <2>1, <2>2, <2>3, <2>5 DEF Adds, Contains
    <3> QED
      BY <2>1, <2>2, <3>1, <3>2
  <2> QED
    BY <2>4, <2>5
<1>8. IsMap(new)
    BY <1>1, <1>6, <1>7 DEF IsMap
<1>9. ASSUME NEW n \in DOMAIN before
      PROVE  /\ new[n].port = before[n].port /\ new[n].txt = before[n].txt
             /\ ToSet(new[n].addresses) =
                   ToSet(before[n].addresses) \cup AddedTo(before, answer, done \cup {r}, n)
  <2>1. AddedTo(before, answer, done \cup {r}, n) = AddedTo(before, answer, done, n) \cup
            (IF r.type = "ADDRESS" /\ n \in Owner(map, answer, r.host) THEN {r.address} ELSE {})
    BY <1>3 DEF AddedTo
  <2>2. /\ map[n].port = before[n].port /\ map[n].txt = before[n].txt
        /\ ToSet(map[n].addresses) = ToSet(before[n].addresses) \cup AddedTo(before, answer, done, n)
    BY DEF IsAttached
  <2> QED
    BY <1>1, <1>7, <2>1, <2>2
<1> QED
    BY <1>1, <1>4, <1>6, <1>8, <1>9 DEF IsAttached

\* The whole second pass.
LEMMA AnswerAttached ==
    ASSUME NEW answer \in Answers, NEW map, IsMap(map)
    PROVE  IsAttached(Attached(map, answer), map, answer, ToSet(answer))
<1>1. PICK m \in Nat : m = Len(answer)
    BY BeforeIs
<1> DEFINE Turn(h, i) == Attach(h, answer, answer[i])
           Loop(f) == f = [i \in 0 .. m |-> IF i = 0 THEN map ELSE Attach(f[i - 1], answer, answer[i])]
<1>2. PICK Maps : \A h : IsMap(h) => h \in Maps
  <2>1. PICK Maps : Maps = UNION {[d -> Instances] : d \in SUBSET InstanceNames}
    OBVIOUS
  <2>2. ASSUME NEW h, IsMap(h) PROVE h \in Maps
    <3>1. h \in [DOMAIN h -> Instances] /\ DOMAIN h \in SUBSET InstanceNames
      BY <2>2 DEF IsMap
    <3> QED
      BY <2>1, <3>1
  <2> QED
    BY <2>2
<1>3. PICK Good : Good = [i \in 0 .. m |-> {h \in Maps : IsAttached(h, map, answer, Before(answer, i))}]
    OBVIOUS
<1>4. \A i \in 0 .. m : \A h : h \in Good[i] <=> IsAttached(h, map, answer, Before(answer, i))
    BY <1>2, <1>3 DEF IsAttached
<1>5. map \in Good[0]
  <2>1. \A n : AddedTo(map, answer, {}, n) = {}
    BY DEF AddedTo
  <2>2. IsAttached(map, map, answer, {})
    BY <2>1 DEF IsAttached
  <2>3. Before(answer, 0) = {} /\ 0 \in 0 .. m
    BY BeforeIs
  <2>4. IsAttached(map, map, answer, Before(answer, 0))
    BY <2>2, <2>3
  <2> QED
    BY <1>4, <2>3, <2>4
<1>6. ASSUME NEW i \in 1 .. m, NEW h \in Good[i - 1] PROVE Turn(h, i) \in Good[i]
  <2>1. i - 1 \in 0 .. m /\ i \in 0 .. m
    OBVIOUS
  <2>2. IsAttached(h, map, answer, Before(answer, i - 1))
    BY <1>4, <2>1
  <2>3. answer[i] \in Records /\ Before(answer, i) = Before(answer, i - 1) \cup {answer[i]}
    BY <1>1, BeforeIs
  <2>4. IsAttached(Attach(h, answer, answer[i]), map, answer, Before(answer, i))
    BY <2>2, <2>3, RecordAttached
  <2> QED
    BY <1>4, <2>1, <2>4
<1>7. \E f : Loop(f)
  <2>1. PICK op : op = [i \in 1 .. m |-> [h \in Good[i - 1] |-> Turn(h, i)]]
    OBVIOUS
  <2> HIDE DEF Turn
  <2>2. \A i \in 1 .. m : \A h \in Good[i - 1] : op[i][h] = Turn(h, i)
    BY <2>1
  <2>3. LeadsOn(op, Good, m)
    BY <1>6, <2>2 DEF LeadsOn
  <2>4. PICK f : LeadsFrom(f, map, op, Good, m)
    BY <1>5, <2>3, GuardedLoop
  <2>5. /\ f = [i \in 0 .. m |-> f[i]] /\ f[0] = map
        /\ \A i \in 0 .. m : f[i] \in Good[i]
        /\ \A i \in 1 .. m : f[i] = op[i][f[i - 1]]
    BY <2>4 DEF LeadsFrom
  <2>6. ASSUME NEW i \in 0 .. m
        PROVE  f[i] = IF i = 0 THEN map ELSE Turn(f[i - 1], i)
    <3>1. i # 0 => i \in 1 .. m /\ i - 1 \in 0 .. m
      OBVIOUS
    <3> QED
      BY <2>2, <2>5, <3>1
  <2>7. f = [i \in 0 .. m |-> IF i = 0 THEN map ELSE Turn(f[i - 1], i)]
    BY <2>5, <2>6
  <2> QED
    BY <2>7 DEF Turn
<1>8. PICK f : f = CHOOSE g : Loop(g)
    OBVIOUS
<1>9. Loop(f)
  <2> HIDE DEF Loop
  <2> QED
    BY <1>7, <1>8
<1>10. Attached(map, answer) = f[m]
    BY <1>1, <1>8 DEF Attached
<1>11. f[0] = map /\ \A i \in 1 .. m : f[i] = Turn(f[i - 1], i)
  <2>1. \A i \in 0 .. m : f[i] = IF i = 0 THEN map ELSE Turn(f[i - 1], i)
    BY <1>9
  <2> HIDE DEF Turn, Loop
  <2> QED
    BY <2>1
<1> HIDE DEF Loop, Turn
<1>12. \A i \in 0 .. m : f[i] \in Good[i]
    BY <1>5, <1>6, <1>11, LoopReaches
<1>13. f[m] \in Good[m] /\ m \in 0 .. m
    BY <1>12
<1>14. IsAttached(f[m], map, answer, Before(answer, m))
    BY <1>4, <1>13
<1> QED
    BY <1>1, <1>10, <1>14, BeforeIs

\* What an answer adds to an instance: what it gives, and what it does not place
\* if there is no other instance.
Adds(map, answer, n) ==
    GivenBy(answer, n) \cup (IF DOMAIN map \cup NamedBy(answer) = {n} THEN StraysOf(answer) ELSE {})

\* What the second pass adds to an instance of the map.
LEMMA AddedIs ==
    ASSUME NEW answer \in Answers, NEW mid, NEW n \in DOMAIN mid
    PROVE  AddedTo(mid, answer, ToSet(answer), n) =
               GivenBy(answer, n) \cup (IF DOMAIN mid = {n} THEN StraysOf(answer) ELSE {})
<1>1. ASSUME NEW r \in ToSet(answer)
      PROVE  n \in Owner(mid, answer, r.host) <=>
                 \/ /\ Naming(answer, r.host) # {}
                    /\ answer[Max(Naming(answer, r.host))].name = n
                 \/ Naming(answer, r.host) = {} /\ DOMAIN mid = {n}
  <2>1. CASE Naming(answer, r.host) # {}
    BY <2>1 DEF Owner
  <2>2. CASE Naming(answer, r.host) = {}
    BY <2>2 DEF Owner
  <2> QED
    BY <2>1, <2>2
<1>2. CASE DOMAIN mid = {n}
  <2>1. \A r \in ToSet(answer) :
            n \in Owner(mid, answer, r.host) <=>
                \/ /\ Naming(answer, r.host) # {}
                   /\ answer[Max(Naming(answer, r.host))].name = n
                \/ Naming(answer, r.host) = {}
    BY <1>1, <1>2
  <2> QED
    BY <1>2, <2>1 DEF AddedTo, GivenBy, StraysOf
<1>3. CASE DOMAIN mid # {n}
  <2>1. \A r \in ToSet(answer) :
            n \in Owner(mid, answer, r.host) <=>
                /\ Naming(answer, r.host) # {}
                /\ answer[Max(Naming(answer, r.host))].name = n
    BY <1>1, <1>3
  <2> QED
    BY <1>3, <2>1 DEF AddedTo, GivenBy
<1> QED
    BY <1>2, <1>3

\* An answer gives addresses to the instances it names only.
LEMMA GivenNamed ==
    ASSUME NEW answer \in Answers, NEW n, n \notin NamedBy(answer)
    PROVE  GivenBy(answer, n) = {}
<1>1. answer \in Seq(ToSet(answer))
    BY BrowserAssumption
<1>2. Len(answer) \in Nat /\ ToSet(answer) = {answer[i] : i \in 1 .. Len(answer)}
    BY <1>1, LenProperties DEF ToSet
<1>3. ASSUME NEW host, Naming(answer, host) # {} PROVE answer[Max(Naming(answer, host))].name # n
  <2>1. PICK S : S = Naming(answer, host)
    OBVIOUS
  <2>2. S \in SUBSET (1 .. Len(answer)) /\ S # {}
    BY <1>3, <2>1 DEF Naming
  <2>3. PICK k : k = Max(S)
    OBVIOUS
  <2>4. k \in S
    <3>1. PICK T : T = {Len(answer) - x : x \in S}
      OBVIOUS
    <3>2. T \in SUBSET Nat /\ T # {}
      <4>1. \A x \in S : Len(answer) - x \in Nat
        BY <1>2, <2>2
      <4> QED
        BY <2>2, <3>1, <4>1
    <3>3. PICK t \in T : \A u \in T : t <= u
      BY <3>2, HasLeast
    <3>4. PICK g \in S : t = Len(answer) - g
      BY <3>1, <3>3
    <3>5. g \in Nat /\ \A x \in S : x \in 1 .. g
      <4>1. \A x \in S : Len(answer) - g <= Len(answer) - x
        BY <3>1, <3>3, <3>4
      <4> QED
        BY <1>2, <2>2, <4>1
    <3>6. S \in SUBSET (1 .. g)
      BY <3>5
    <3>7. Max(S) = g
      BY <3>5, <3>6, MaxIs
    <3> QED
      BY <2>3, <3>4, <3>7
  <2>5. answer[k] \in ToSet(answer) /\ answer[k].type = "SRV" /\ ~ answer[k].foreign
    BY <1>2, <2>1, <2>2, <2>4 DEF Naming
  <2>6. answer[k].name \in NamedBy(answer)
    BY <2>5 DEF NamedBy
  <2> QED
    BY <2>1, <2>3, <2>6
<1> QED
    BY <1>3 DEF GivenBy

\* What an answer adds to a map.
LEMMA CollectIs ==
    ASSUME NEW answer \in Answers, NEW map, IsMap(map)
    PROVE  /\ IsMap(CollectAnswers(map, answer))
           /\ DOMAIN CollectAnswers(map, answer) = DOMAIN map \cup NamedBy(answer)
           /\ \A n \in InstanceNames :
                 /\ TextIn(CollectAnswers(map, answer), n) = TextIn(map, n) \cup ToldBy(answer, n)
                 /\ PortIn(CollectAnswers(map, answer), n) <=>
                       PortIn(map, n) \/ ServedIn(ToSet(answer), n)
                 /\ AddressesIn(CollectAnswers(map, answer), n) =
                        AddressesIn(map, n) \cup Adds(map, answer, n)
<1>1. PICK mid : mid = Established(map, answer)
    OBVIOUS
<1>2. PICK new : new = Attached(mid, answer)
    OBVIOUS
<1>3. CollectAnswers(map, answer) = new
    BY <1>1, <1>2 DEF CollectAnswers
<1>4. IsEstablished(mid, map, ToSet(answer))
    BY <1>1, AnswerEstablished
<1>5. IsMap(mid) /\ DOMAIN mid = DOMAIN map \cup NamedBy(answer)
    BY <1>4 DEF IsEstablished, NamedIn, NamedBy
<1>6. IsAttached(new, mid, answer, ToSet(answer))
    BY <1>2, <1>5, AnswerAttached
<1>7. IsMap(new) /\ DOMAIN new = DOMAIN map \cup NamedBy(answer)
    BY <1>5, <1>6 DEF IsAttached
<1>8. ASSUME NEW n \in InstanceNames
      PROVE  /\ TextIn(new, n) = TextIn(map, n) \cup ToldBy(answer, n)
             /\ PortIn(new, n) <=> PortIn(map, n) \/ ServedIn(ToSet(answer), n)
  <2>1. TextIn(new, n) = TextIn(mid, n) /\ (PortIn(new, n) <=> PortIn(mid, n))
    BY <1>6 DEF IsAttached, TextIn, PortIn
  <2>2. /\ TextIn(mid, n) = TextIn(map, n) \cup ToldIn(ToSet(answer), n)
        /\ PortIn(mid, n) <=> PortIn(map, n) \/ ServedIn(ToSet(answer), n)
    BY <1>4 DEF IsEstablished
  <2>3. ToldBy(answer, n) = ToldIn(ToSet(answer), n)
    BY DEF ToldBy, ToldIn
  <2> QED
    BY <2>1, <2>2, <2>3
<1>9. ASSUME NEW n \in InstanceNames
      PROVE  AddressesIn(new, n) = AddressesIn(map, n) \cup Adds(map, answer, n)
  <2>1. AddressesIn(mid, n) = AddressesIn(map, n)
    BY <1>4 DEF IsEstablished
  <2>2. CASE n \in DOMAIN mid
    <3>1. AddedTo(mid, answer, ToSet(answer), n) = Adds(map, answer, n)
      <4>1. AddedTo(mid, answer, ToSet(answer), n) =
                GivenBy(answer, n) \cup (IF DOMAIN mid = {n} THEN StraysOf(answer) ELSE {})
        BY <2>2, AddedIs
      <4> QED
        BY <1>5, <4>1 DEF Adds
    <3>2. AddressesIn(new, n) = ToSet(new[n].addresses) /\ AddressesIn(mid, n) = ToSet(mid[n].addresses)
      BY <1>6, <2>2 DEF IsAttached, AddressesIn
    <3>3. ToSet(new[n].addresses) =
              ToSet(mid[n].addresses) \cup AddedTo(mid, answer, ToSet(answer), n)
      BY <1>6, <2>2 DEF IsAttached
    <3> QED
      BY <2>1, <3>1, <3>2, <3>3
  <2>3. CASE n \notin DOMAIN mid
    <3>1. AddressesIn(new, n) = {} /\ AddressesIn(mid, n) = {}
      BY <1>6, <2>3 DEF IsAttached, AddressesIn
    <3>2. n \notin NamedBy(answer) /\ DOMAIN map \cup NamedBy(answer) # {n}
      BY <1>5, <2>3
    <3>3. Adds(map, answer, n) = {}
      BY <3>2, GivenNamed DEF Adds
    <3> QED
      BY <2>1, <3>1, <3>3
  <2> QED
    BY <2>2, <2>3
<1> QED
    BY <1>3, <1>7, <1>8, <1>9

-----------------------------------------------------------------------------
(* Browsing: the addresses to dial.                                        *)

\* The elements of a set, one after the other.
LEMMA ListOfSet ==
    ASSUME NEW S, IsFiniteSet(S)
    PROVE  SetToSeq(S) \in Seq(S) /\ ToSet(SetToSeq(S)) = S
<1>1. PICK n \in Nat : n = Cardinality(S)
    BY FS_CardinalityType
<1>2. PICK g \in [1 .. n -> S] : IsInjective(g)
    BY <1>1, FS_CardinalityType DEF ExistsBijection, Bijection, Injection
<1>3. PICK f : f = CHOOSE h \in [1 .. n -> S] : IsInjective(h)
    OBVIOUS
<1>4. f \in [1 .. n -> S] /\ IsInjective(f)
    BY <1>2, <1>3
<1>5. SetToSeq(S) = f
    BY <1>1, <1>3 DEF SetToSeq
<1>6. f \in Injection(1 .. n, S)
    BY <1>4 DEF Injection
<1>7. IsFiniteSet(1 .. n) /\ Cardinality(1 .. n) = n
    BY FS_Interval
<1>8. f \in Surjection(1 .. n, S)
    BY <1>1, <1>6, <1>7, FS_Injection
<1>9. \A x \in S : \E i \in 1 .. n : f[i] = x
    BY <1>8 DEF Surjection
<1>10. f \in Seq(S) /\ Len(f) = n
    BY <1>4
<1>11. ToSet(f) = S
    BY <1>4, <1>9 DEF ToSet
<1> QED
    BY <1>5, <1>10, <1>11

\* Some numbers in order.
InOrder(s) == \A i, j \in 1 .. Len(s) : i < j => s[i] <= s[j]
Rising(s) == \A i, j \in 1 .. Len(s) : i < j => s[i] < s[j]

\* An address that is put where it belongs.
LEMMA PutInOrderIs ==
    ASSUME NEW s \in Seq(Nat), InOrder(s), NEW x \in Nat
    PROVE  /\ PutInOrder(s, x) \in Seq(Nat) /\ InOrder(PutInOrder(s, x))
           /\ ToSet(PutInOrder(s, x)) = ToSet(s) \cup {x}
<1>1. PICK m \in Nat : m = Len(s)
    BY LenProperties
<1>2. \A i \in 1 .. m : s[i] \in Nat
    BY <1>1, ElementOfSeq
<1>3. PICK Below : Below = {0} \cup {i \in 1 .. m : s[i] <= x}
    OBVIOUS
<1>4. Below \in SUBSET (0 .. m) /\ Below # {}
    BY <1>3
<1>5. PICK n : n = CHOOSE k \in Below : \A i \in Below : k >= i
    OBVIOUS
<1>6. n \in Below /\ \A i \in Below : n >= i
    BY <1>4, <1>5, HasGreatest
<1>7. n \in 0 .. m
    BY <1>4, <1>6
<1>8. \A i \in 1 .. m : i <= n => s[i] <= x
  <2>1. SUFFICES ASSUME NEW i \in 1 .. m, i <= n PROVE s[i] <= x
    OBVIOUS
  <2>2. n \in 1 .. m /\ s[n] <= x
    BY <1>3, <1>6, <1>7, <2>1
  <2>3. i = n \/ s[i] <= s[n]
    BY <1>1, <2>1, <2>2 DEF InOrder
  <2> QED
    BY <1>2, <2>2, <2>3
<1>9. \A i \in 1 .. m : n < i => x <= s[i]
  <2>1. SUFFICES ASSUME NEW i \in 1 .. m, n < i PROVE x <= s[i]
    OBVIOUS
  <2>2. i \notin Below
    BY <1>6, <1>7, <2>1
  <2> QED
    BY <1>2, <1>3, <2>2
<1>10. PICK t : t = PutInOrder(s, x)
    OBVIOUS
<1>11. /\ t \in Seq(Nat) /\ Len(t) = m + 1
       /\ \A i \in 1 .. m + 1 : t[i] = IF i <= n THEN s[i] ELSE IF i = n + 1 THEN x ELSE s[i - 1]
  <2>1. PICK a : a = SubSeq(s, 1, n)
    OBVIOUS
  <2>2. PICK b : b = SubSeq(s, n + 1, m)
    OBVIOUS
  <2>3. PICK c : c = <<x>>
    OBVIOUS
  <2>4. t = (a \o c) \o b
    <3>1. n = Max(Below)
      BY <1>5 DEF Max
    <3>2. t = SubSeq(s, 1, (n + 1) - 1) \o <<x>> \o SubSeq(s, n + 1, Len(s))
      BY <1>1, <1>3, <1>10, <3>1 DEF PutInOrder, InsertAt
    <3>3. (n + 1) - 1 = n
      BY <1>7
    <3> QED
      BY <1>1, <2>1, <2>2, <2>3, <3>2, <3>3
  <2>5. /\ a \in Seq(Nat) /\ Len(a) = n /\ \A i \in 1 .. n : a[i] = s[i]
    <3>1. \A i \in 1 .. n : s[i] \in Nat
      BY <1>2, <1>7
    <3>2. /\ a \in Seq(Nat) /\ Len(a) = IF 1 <= n THEN n - 1 + 1 ELSE 0
          /\ \A i \in 1 .. n - 1 + 1 : a[i] = s[1 + i - 1]
      BY <1>7, <2>1, <3>1, SubSeqProperties
    <3>3. n - 1 + 1 = n /\ \A i \in 1 .. n : 1 + i - 1 = i
      BY <1>7
    <3> QED
      BY <1>7, <3>2, <3>3
  <2>6. /\ b \in Seq(Nat) /\ Len(b) = m - n /\ \A i \in 1 .. m - n : b[i] = s[n + i]
    <3>1. \A i \in n + 1 .. m : s[i] \in Nat
      BY <1>2, <1>7
    <3>2. /\ b \in Seq(Nat) /\ Len(b) = IF n + 1 <= m THEN m - (n + 1) + 1 ELSE 0
          /\ \A i \in 1 .. m - (n + 1) + 1 : b[i] = s[n + 1 + i - 1]
      BY <1>1, <1>7, <2>2, <3>1, SubSeqProperties
    <3>3. m - (n + 1) + 1 = m - n /\ (~ (n + 1 <= m) => m - n = 0)
      BY <1>1, <1>7
    <3>4. \A i \in 1 .. m - n : n + 1 + i - 1 = n + i
      BY <1>1, <1>7
    <3>5. b \in Seq(Nat) /\ Len(b) = m - n
      BY <3>2, <3>3
    <3>6. ASSUME NEW i \in 1 .. m - n PROVE b[i] = s[n + i]
      <4>1. b[i] = s[n + 1 + i - 1]
        BY <3>2, <3>3
      <4> QED
        BY <3>4, <4>1
    <3> QED
      BY <3>5, <3>6
  <2>7. c \in Seq(Nat) /\ Len(c) = 1 /\ c[1] = x
    BY <2>3
  <2>8. PICK ac : ac = a \o c
    OBVIOUS
  <2>9. /\ ac \in Seq(Nat) /\ Len(ac) = n + 1
        /\ \A i \in 1 .. n + 1 : ac[i] = IF i <= n THEN s[i] ELSE x
    <3>1. /\ ac \in Seq(Nat) /\ Len(ac) = n + 1
          /\ \A i \in 1 .. n + 1 : ac[i] = IF i <= n THEN a[i] ELSE c[i - n]
      <4>1. a \in Seq(Nat) /\ c \in Seq(Nat)
        BY <2>5, <2>7
      <4>2. /\ ac \in Seq(Nat) /\ Len(ac) = Len(a) + Len(c)
            /\ \A i \in 1 .. Len(a) + Len(c) : ac[i] = IF i <= Len(a) THEN a[i] ELSE c[i - Len(a)]
        BY <2>8, <4>1, ConcatProperties
      <4> QED
        BY <2>5, <2>7, <4>2
    <3>2. ASSUME NEW i \in 1 .. n + 1 PROVE ac[i] = IF i <= n THEN s[i] ELSE x
      <4>1. CASE i <= n
        <5>1. i \in 1 .. n
          BY <1>7, <4>1
        <5> QED
          BY <2>5, <3>1, <4>1, <5>1
      <4>2. CASE ~ (i <= n)
        <5>1. i - n = 1
          BY <1>7, <4>2
        <5> QED
          BY <2>7, <3>1, <4>2, <5>1
      <4> QED
        BY <4>1, <4>2
    <3> QED
      BY <3>1, <3>2
  <2>10. /\ t \in Seq(Nat) /\ Len(t) = (n + 1) + (m - n)
         /\ \A i \in 1 .. (n + 1) + (m - n) : t[i] = IF i <= n + 1 THEN ac[i] ELSE b[i - (n + 1)]
    <3>1. ac \in Seq(Nat) /\ b \in Seq(Nat)
      BY <2>6, <2>9
    <3>2. /\ t \in Seq(Nat) /\ Len(t) = Len(ac) + Len(b)
          /\ \A i \in 1 .. Len(ac) + Len(b) : t[i] = IF i <= Len(ac) THEN ac[i] ELSE b[i - Len(ac)]
      BY <2>4, <2>8, <3>1, ConcatProperties
    <3> QED
      BY <2>6, <2>9, <3>2
  <2>11. (n + 1) + (m - n) = m + 1
    BY <1>1, <1>7
  <2>12. ASSUME NEW i \in 1 .. m + 1
         PROVE  t[i] = IF i <= n THEN s[i] ELSE IF i = n + 1 THEN x ELSE s[i - 1]
    <3>1. CASE i <= n + 1
      <4>1. i \in 1 .. n + 1 /\ (~ (i <= n) <=> i = n + 1)
        BY <1>7, <3>1
      <4> QED
        BY <2>9, <2>10, <2>11, <3>1, <4>1
    <3>2. CASE ~ (i <= n + 1)
      <4>1. i - (n + 1) \in 1 .. m - n /\ n + (i - (n + 1)) = i - 1 /\ ~ (i <= n) /\ i # n + 1
        BY <1>1, <1>7, <3>2
      <4> QED
        BY <2>6, <2>10, <2>11, <3>2, <4>1
    <3> QED
      BY <3>1, <3>2
  <2> QED
    BY <2>10, <2>11, <2>12
<1>12. InOrder(t)
  <2>1. SUFFICES ASSUME NEW i \in 1 .. m + 1, NEW j \in 1 .. m + 1, i < j PROVE t[i] <= t[j]
    BY <1>11 DEF InOrder
  <2>2. \A k, l \in 1 .. m : k < l => s[k] <= s[l]
    BY <1>1 DEF InOrder
  <2>3. CASE j <= n
    <3>1. i \in 1 .. m /\ j \in 1 .. m /\ i <= n
      BY <1>7, <2>1, <2>3
    <3> QED
      BY <1>11, <2>1, <2>2, <2>3, <3>1
  <2>4. CASE j = n + 1
    <3>1. i <= n /\ i \in 1 .. m /\ ~ (j <= n)
      BY <1>7, <2>1, <2>4
    <3> QED
      BY <1>8, <1>11, <2>4, <3>1
  <2>5. CASE ~ (j <= n) /\ j # n + 1
    <3>1. j - 1 \in 1 .. m /\ n < j - 1 /\ t[j] = s[j - 1]
      BY <1>7, <1>11, <2>5
    <3>2. CASE i <= n
      <4>1. i \in 1 .. m /\ i < j - 1 /\ t[i] = s[i]
        BY <1>7, <1>11, <3>1, <3>2
      <4> QED
        BY <2>2, <3>1, <4>1
    <3>3. CASE i = n + 1
      <4>1. t[i] = x
        BY <1>7, <1>11, <3>3
      <4> QED
        BY <1>9, <3>1, <4>1
    <3>4. CASE ~ (i <= n) /\ i # n + 1
      <4>1. i - 1 \in 1 .. m /\ i - 1 < j - 1 /\ t[i] = s[i - 1]
        BY <1>7, <1>11, <2>1, <3>4
      <4> QED
        BY <2>2, <3>1, <4>1
    <3> QED
      BY <3>2, <3>3, <3>4
  <2> QED
    BY <2>3, <2>4, <2>5
<1>13. ToSet(s) = {s[i] : i \in 1 .. m} /\ ToSet(t) = {t[i] : i \in 1 .. m + 1}
    BY <1>1, <1>11, LenProperties DEF ToSet
<1>14. ToSet(t) \subseteq ToSet(s) \cup {x}
  <2>1. SUFFICES ASSUME NEW i \in 1 .. m + 1 PROVE t[i] \in ToSet(s) \cup {x}
    BY <1>13
  <2>2. i <= n => i \in 1 .. m
    BY <1>7
  <2>3. ~ (i <= n) /\ i # n + 1 => i - 1 \in 1 .. m
    BY <1>7
  <2> QED
    BY <1>11, <1>13, <2>2, <2>3
<1>15. ToSet(s) \cup {x} \subseteq ToSet(t)
  <2>1. ASSUME NEW i \in 1 .. m PROVE s[i] \in ToSet(t)
    <3>1. CASE i <= n
      <4>1. i \in 1 .. m + 1 /\ t[i] = s[i]
        BY <1>11, <3>1
      <4> QED
        BY <1>13, <4>1
    <3>2. CASE ~ (i <= n)
      <4>1. i + 1 \in 1 .. m + 1 /\ ~ (i + 1 <= n) /\ i + 1 # n + 1 /\ (i + 1) - 1 = i
        BY <1>7, <3>2
      <4>2. t[i + 1] = s[i]
        BY <1>11, <4>1
      <4> QED
        BY <1>13, <4>1, <4>2
    <3> QED
      BY <3>1, <3>2
  <2>2. n + 1 \in 1 .. m + 1 /\ t[n + 1] = x
    BY <1>7, <1>11
  <2> QED
    BY <1>13, <2>1, <2>2
<1> QED
    BY <1>10, <1>11, <1>12, <1>14, <1>15

\* The addresses are sorted: all of them are still there, in order.
LEMMA SortedIs ==
    ASSUME NEW s \in Seq(Nat)
    PROVE  Sorted(s) \in Seq(Nat) /\ InOrder(Sorted(s)) /\ ToSet(Sorted(s)) = ToSet(s)
<1>1. PICK m \in Nat : m = Len(s)
    BY FirstOnes
<1> DEFINE Turn(h, i) == PutInOrder(h, s[i])
           Loop(f) == f = [i \in 0 .. m |-> IF i = 0 THEN <<>> ELSE PutInOrder(f[i - 1], s[i])]
<1>2. PICK Good : Good = [i \in 0 .. m |->
                            {h \in Seq(Nat) : InOrder(h) /\ ToSet(h) = Before(s, i)}]
    OBVIOUS
<1>3. \A i \in 0 .. m : \A h :
          h \in Good[i] <=> h \in Seq(Nat) /\ InOrder(h) /\ ToSet(h) = Before(s, i)
    BY <1>2
<1>4. <<>> \in Good[0]
  <2>1. PICK none : none = <<>>
    OBVIOUS
  <2>2. none \in Seq(Nat) /\ InOrder(none)
    BY <2>1 DEF InOrder
  <2>3. ToSet(none) = {}
    BY <2>1 DEF ToSet
  <2>4. Before(s, 0) = {} /\ 0 \in 0 .. m
    BY FirstOnes
  <2> QED
    BY <1>3, <2>1, <2>2, <2>3, <2>4
<1>5. ASSUME NEW i \in 1 .. m, NEW h \in Good[i - 1] PROVE Turn(h, i) \in Good[i]
  <2>1. i - 1 \in 0 .. m /\ i \in 0 .. m
    OBVIOUS
  <2>2. h \in Seq(Nat) /\ InOrder(h) /\ ToSet(h) = Before(s, i - 1)
    BY <1>3, <2>1
  <2>3. s[i] \in Nat /\ Before(s, i) = Before(s, i - 1) \cup {s[i]}
    BY <1>1, FirstOnes
  <2>4. PICK t : t = PutInOrder(h, s[i])
    OBVIOUS
  <2>5. t \in Seq(Nat) /\ InOrder(t) /\ ToSet(t) = ToSet(h) \cup {s[i]}
    BY <2>2, <2>3, <2>4, PutInOrderIs
  <2>6. t \in Good[i]
    BY <1>3, <2>1, <2>2, <2>3, <2>5
  <2> QED
    BY <2>4, <2>6
<1>6. \E f : Loop(f)
  <2>1. PICK op : op = [i \in 1 .. m |-> [h \in Good[i - 1] |-> Turn(h, i)]]
    OBVIOUS
  <2> HIDE DEF Turn
  <2>2. \A i \in 1 .. m : \A h \in Good[i - 1] : op[i][h] = Turn(h, i)
    BY <2>1
  <2>3. LeadsOn(op, Good, m)
    BY <1>5, <2>2 DEF LeadsOn
  <2>4. PICK f : LeadsFrom(f, <<>>, op, Good, m)
    BY <1>4, <2>3, GuardedLoop
  <2>5. /\ f = [i \in 0 .. m |-> f[i]] /\ f[0] = <<>>
        /\ \A i \in 0 .. m : f[i] \in Good[i]
        /\ \A i \in 1 .. m : f[i] = op[i][f[i - 1]]
    BY <2>4 DEF LeadsFrom
  <2>6. ASSUME NEW i \in 0 .. m
        PROVE  f[i] = IF i = 0 THEN <<>> ELSE Turn(f[i - 1], i)
    <3>1. i # 0 => i \in 1 .. m /\ i - 1 \in 0 .. m
      OBVIOUS
    <3> QED
      BY <2>2, <2>5, <3>1
  <2>7. f = [i \in 0 .. m |-> IF i = 0 THEN <<>> ELSE Turn(f[i - 1], i)]
    BY <2>5, <2>6
  <2> QED
    BY <2>7 DEF Turn
<1>7. PICK f : f = CHOOSE g : Loop(g)
    OBVIOUS
<1>8. Loop(f)
  <2> HIDE DEF Loop
  <2> QED
    BY <1>6, <1>7
<1>9. Sorted(s) = f[m]
    BY <1>1, <1>7 DEF Sorted
<1>10. f[0] = <<>> /\ \A i \in 1 .. m : f[i] = Turn(f[i - 1], i)
  <2>1. \A i \in 0 .. m : f[i] = IF i = 0 THEN <<>> ELSE Turn(f[i - 1], i)
    BY <1>8
  <2> HIDE DEF Turn, Loop
  <2> QED
    BY <2>1
<1> HIDE DEF Loop, Turn
<1>11. \A i \in 0 .. m : f[i] \in Good[i]
    BY <1>4, <1>5, <1>10, LoopReaches
<1>12. f[m] \in Good[m] /\ m \in 0 .. m
    BY <1>11
<1>13. f[m] \in Seq(Nat) /\ InOrder(f[m]) /\ ToSet(f[m]) = Before(s, m)
    BY <1>3, <1>12
<1>14. Before(s, m) = ToSet(s)
    BY <1>1, FirstOnes
<1> QED
    BY <1>9, <1>13, <1>14

\* An address that is greater than all before it.
LEMMA RisesOn ==
    ASSUME NEW s \in Seq(Nat), Rising(s), NEW x \in Nat, \A y \in ToSet(s) : y < x
    PROVE  /\ Append(s, x) \in Seq(Nat) /\ Rising(Append(s, x)) /\ Append(s, x) # <<>>
           /\ ToSet(Append(s, x)) = ToSet(s) \cup {x} /\ Last(Append(s, x)) = x
<1>1. PICK m \in Nat : m = Len(s)
    BY LenProperties
<1>2. PICK t : t = Append(s, x)
    OBVIOUS
<1>3. /\ t \in Seq(Nat) /\ t # <<>> /\ Len(t) = m + 1 /\ t[m + 1] = x
      /\ \A i \in 1 .. m : t[i] = s[i]
    BY <1>1, <1>2, AppendProperties
<1>4. ToSet(s) = {s[i] : i \in 1 .. m} /\ ToSet(t) = {t[i] : i \in 1 .. m + 1}
    BY <1>1, <1>3, LenProperties DEF ToSet
<1>5. \A i \in 1 .. m + 1 : i \in 1 .. m \/ i = m + 1
    OBVIOUS
<1>6. ToSet(t) = ToSet(s) \cup {x}
  <2>1. ToSet(t) \subseteq ToSet(s) \cup {x}
    BY <1>3, <1>4, <1>5
  <2>2. (\A i \in 1 .. m : i \in 1 .. m + 1) /\ m + 1 \in 1 .. m + 1
    OBVIOUS
  <2>3. \A i \in 1 .. m : s[i] \in ToSet(t)
    BY <1>3, <1>4, <2>2
  <2>4. x \in ToSet(t)
    BY <1>3, <1>4, <2>2
  <2>5. ToSet(s) \cup {x} \subseteq ToSet(t)
    BY <1>4, <2>3, <2>4
  <2> QED
    BY <2>1, <2>5
<1>7. Rising(t)
  <2>1. SUFFICES ASSUME NEW i \in 1 .. m + 1, NEW j \in 1 .. m + 1, i < j PROVE t[i] < t[j]
    BY <1>3 DEF Rising
  <2>2. i \in 1 .. m
    BY <2>1
  <2>3. CASE j \in 1 .. m
    BY <1>1, <1>3, <2>1, <2>2, <2>3 DEF Rising
  <2>4. CASE j = m + 1
    BY <1>3, <1>4, <2>2, <2>4
  <2> QED
    BY <1>5, <2>3, <2>4
<1>8. Last(t) = x
    BY <1>3 DEF Last
<1> QED
    BY <1>2, <1>3, <1>6, <1>7, <1>8

\* What is in order has no repetition left once it has lost those of the one
\* before.
LEMMA DedupIs ==
    ASSUME NEW s \in Seq(Nat), InOrder(s)
    PROVE  Dedup(s) \in Seq(Nat) /\ Rising(Dedup(s)) /\ ToSet(Dedup(s)) = ToSet(s)
<1>1. PICK m \in Nat : m = Len(s)
    BY FirstOnes
<1> DEFINE Turn(h, i) == IF h # <<>> /\ Last(h) = s[i] THEN h ELSE Append(h, s[i])
           Loop(f) == f = [i \in 0 .. m |->
                             IF i = 0 THEN <<>>
                             ELSE IF f[i - 1] # <<>> /\ Last(f[i - 1]) = s[i]
                                  THEN f[i - 1] ELSE Append(f[i - 1], s[i])]
           Kept(h, i) == /\ h \in Seq(Nat) /\ Rising(h) /\ ToSet(h) = Before(s, i)
                         /\ i # 0 => h # <<>> /\ Last(h) = s[i]
<1>2. PICK Good : Good = [i \in 0 .. m |-> {h \in Seq(Nat) : Kept(h, i)}]
    OBVIOUS
<1>3. \A i \in 0 .. m : \A h : h \in Good[i] <=> Kept(h, i)
    BY <1>2
<1> HIDE DEF Kept
<1>4. <<>> \in Good[0]
  <2>1. PICK none : none = <<>>
    OBVIOUS
  <2>2. none \in Seq(Nat) /\ Rising(none)
    BY <2>1 DEF Rising
  <2>3. ToSet(none) = {}
    BY <2>1 DEF ToSet
  <2>4. Before(s, 0) = {} /\ 0 \in 0 .. m
    BY FirstOnes
  <2>5. Kept(none, 0)
    BY <2>2, <2>3, <2>4 DEF Kept
  <2> QED
    BY <1>3, <2>1, <2>4, <2>5
<1>5. ASSUME NEW i \in 1 .. m, NEW h \in Good[i - 1] PROVE Turn(h, i) \in Good[i]
  <2>1. i - 1 \in 0 .. m /\ i \in 0 .. m /\ i # 0
    OBVIOUS
  <2>2. /\ h \in Seq(Nat) /\ Rising(h) /\ ToSet(h) = Before(s, i - 1)
        /\ i - 1 # 0 => h # <<>> /\ Last(h) = s[i - 1]
    BY <1>3, <2>1 DEF Kept
  <2>3. PICK x \in Nat : x = s[i]
    BY <1>1, FirstOnes
  <2>4. Before(s, i) = Before(s, i - 1) \cup {x}
    BY <1>1, <2>3, FirstOnes
  <2>5. CASE h # <<>> /\ Last(h) = x
    <3>1. PICK n \in Nat \ {0} : n = Len(h)
      BY <2>2, <2>5, EmptySeq
    <3>2. x \in ToSet(h)
      <4>1. n \in DOMAIN h /\ h[n] = x
        BY <2>2, <2>5, <3>1, LenProperties DEF Last
      <4> QED
        BY <4>1 DEF ToSet
    <3>3. Kept(h, i)
      BY <2>2, <2>3, <2>4, <2>5, <3>2 DEF Kept
    <3>4. h \in Good[i]
      BY <1>3, <2>1, <3>3
    <3> QED
      BY <2>3, <2>5, <3>4
  <2>6. CASE ~ (h # <<>> /\ Last(h) = x)
    <3>1. \A y \in ToSet(h) : y < x
      <4>1. CASE i = 1
        <5>1. ToSet(h) = {}
          BY <2>2, <4>1, FirstOnes
        <5> QED
          BY <5>1
      <4>2. CASE i # 1
        <5>1. i - 1 \in 1 .. m /\ i - 1 # 0 /\ i - 1 < i
          BY <4>2
        <5>2. PICK z \in Nat : z = s[i - 1]
          BY <1>1, <5>1, FirstOnes
        <5>3. z <= x
          BY <1>1, <2>3, <5>1, <5>2 DEF InOrder
        <5>4. h # <<>> /\ Last(h) = z
          BY <2>2, <5>1, <5>2
        <5>5. z < x
          BY <2>6, <5>3, <5>4
        <5>6. PICK n \in Nat \ {0} : n = Len(h)
          BY <2>2, <5>4, EmptySeq
        <5>7. h[n] = z /\ ToSet(h) = {h[k] : k \in 1 .. n}
          BY <2>2, <5>4, <5>6, LenProperties DEF Last, ToSet
        <5>8. ASSUME NEW k \in 1 .. n PROVE h[k] < x
          <6>1. h[k] \in Nat
            BY <2>2, <5>6, ElementOfSeq
          <6>2. n \in 1 .. n /\ (k = n \/ k < n)
            OBVIOUS
          <6>3. k < n => h[k] < z
            BY <2>2, <5>6, <5>7, <6>2 DEF Rising
          <6> QED
            BY <5>5, <5>7, <6>1, <6>2, <6>3
        <5> QED
          BY <5>7, <5>8
      <4> QED
        BY <4>1, <4>2
    <3>2. PICK t : t = Append(h, x)
      OBVIOUS
    <3>3. t \in Seq(Nat) /\ Rising(t) /\ t # <<>> /\ ToSet(t) = ToSet(h) \cup {x} /\ Last(t) = x
      BY <2>2, <3>1, <3>2, RisesOn
    <3>4. Kept(t, i)
      BY <2>2, <2>3, <2>4, <3>3 DEF Kept
    <3>5. t \in Good[i]
      BY <1>3, <2>1, <3>4
    <3> QED
      BY <2>3, <2>6, <3>2, <3>5
  <2> QED
    BY <2>5, <2>6
<1>6. \E f : Loop(f)
  <2>1. PICK op : op = [i \in 1 .. m |-> [h \in Good[i - 1] |-> Turn(h, i)]]
    OBVIOUS
  <2> HIDE DEF Turn
  <2>2. \A i \in 1 .. m : \A h \in Good[i - 1] : op[i][h] = Turn(h, i)
    BY <2>1
  <2>3. LeadsOn(op, Good, m)
    BY <1>5, <2>2 DEF LeadsOn
  <2>4. PICK f : LeadsFrom(f, <<>>, op, Good, m)
    BY <1>4, <2>3, GuardedLoop
  <2>5. /\ f = [i \in 0 .. m |-> f[i]] /\ f[0] = <<>>
        /\ \A i \in 0 .. m : f[i] \in Good[i]
        /\ \A i \in 1 .. m : f[i] = op[i][f[i - 1]]
    BY <2>4 DEF LeadsFrom
  <2>6. ASSUME NEW i \in 0 .. m
        PROVE  f[i] = IF i = 0 THEN <<>> ELSE Turn(f[i - 1], i)
    <3>1. i # 0 => i \in 1 .. m /\ i - 1 \in 0 .. m
      OBVIOUS
    <3> QED
      BY <2>2, <2>5, <3>1
  <2>7. f = [i \in 0 .. m |-> IF i = 0 THEN <<>> ELSE Turn(f[i - 1], i)]
    BY <2>5, <2>6
  <2> QED
    BY <2>7 DEF Turn
<1>7. PICK f : f = CHOOSE g : Loop(g)
    OBVIOUS
<1>8. Loop(f)
  <2> HIDE DEF Loop
  <2> QED
    BY <1>6, <1>7
<1>9. Dedup(s) = f[m]
    BY <1>1, <1>7 DEF Dedup
<1>10. f[0] = <<>> /\ \A i \in 1 .. m : f[i] = Turn(f[i - 1], i)
  <2>1. \A i \in 0 .. m : f[i] = IF i = 0 THEN <<>> ELSE Turn(f[i - 1], i)
    BY <1>8
  <2> HIDE DEF Turn, Loop
  <2> QED
    BY <2>1
<1> HIDE DEF Loop, Turn
<1>11. \A i \in 0 .. m : f[i] \in Good[i]
    BY <1>4, <1>5, <1>10, LoopReaches
<1>12. f[m] \in Good[m] /\ m \in 0 .. m
    BY <1>11
<1>13. Kept(f[m], m)
    BY <1>3, <1>12
<1>14. Before(s, m) = ToSet(s)
    BY <1>1, FirstOnes
<1> QED
    BY <1>9, <1>13, <1>14 DEF Kept

\* What is to be dialled.
LEMMA DialledIs ==
    ASSUME NEW s \in Seq(Nat)
    PROVE  Rising(Dialled(s)) /\ Len(Dialled(s)) \in Nat /\ ToSet(Dialled(s)) = ToSet(s)
<1>1. PICK t : t = Sorted(s)
    OBVIOUS
<1>2. t \in Seq(Nat) /\ InOrder(t) /\ ToSet(t) = ToSet(s)
    BY <1>1, SortedIs
<1>3. Dedup(t) \in Seq(Nat) /\ Rising(Dedup(t)) /\ ToSet(Dedup(t)) = ToSet(t)
    BY <1>2, DedupIs
<1>4. Dialled(s) = Dedup(t)
    BY <1>1 DEF Dialled
<1> QED
    BY <1>2, <1>3, <1>4, LenProperties

\* What two lists have, one has that is made of both.
LEMMA ToSetOfBoth ==
    ASSUME NEW S, NEW s \in Seq(S), NEW t \in Seq(S)
    PROVE  s \o t \in Seq(S) /\ ToSet(s \o t) = ToSet(s) \cup ToSet(t)
<1>1. PICK m \in Nat, n \in Nat : m = Len(s) /\ n = Len(t)
    BY LenProperties
<1>2. PICK st : st = s \o t
    OBVIOUS
<1>3. /\ st \in Seq(S) /\ Len(st) = m + n
      /\ \A i \in 1 .. m + n : st[i] = IF i <= m THEN s[i] ELSE t[i - m]
    BY <1>1, <1>2, ConcatProperties
<1>4. /\ ToSet(s) = {s[i] : i \in 1 .. m} /\ ToSet(t) = {t[i] : i \in 1 .. n}
      /\ ToSet(st) = {st[i] : i \in 1 .. m + n}
    BY <1>1, <1>3, LenProperties DEF ToSet
<1>5. ToSet(st) \subseteq ToSet(s) \cup ToSet(t)
  <2>1. SUFFICES ASSUME NEW i \in 1 .. m + n PROVE st[i] \in ToSet(s) \cup ToSet(t)
    BY <1>4
  <2>2. i <= m => i \in 1 .. m
    OBVIOUS
  <2>3. ~ (i <= m) => i - m \in 1 .. n
    OBVIOUS
  <2> QED
    BY <1>3, <1>4, <2>2, <2>3
<1>6. ToSet(s) \subseteq ToSet(st)
  <2>1. SUFFICES ASSUME NEW i \in 1 .. m PROVE s[i] \in ToSet(st)
    BY <1>4
  <2>2. i \in 1 .. m + n /\ i <= m
    OBVIOUS
  <2> QED
    BY <1>3, <1>4, <2>2
<1>7. ToSet(t) \subseteq ToSet(st)
  <2>1. SUFFICES ASSUME NEW i \in 1 .. n PROVE t[i] \in ToSet(st)
    BY <1>4
  <2>2. i + m \in 1 .. m + n /\ ~ (i + m <= m) /\ (i + m) - m = i
    OBVIOUS
  <2>3. st[i + m] = t[i]
    BY <1>3, <2>2
  <2> QED
    BY <1>4, <2>2, <2>3
<1> QED
    BY <1>2, <1>3, <1>5, <1>6, <1>7

\* The addresses of some instances together.
AddressesAmong(names) == UNION {ToSet(found[n].addresses) : n \in names}

\* What the loop over the instances gathers.
LEMMA AddressesOfAre ==
    ASSUME IsMap(found), NEW names \in Seq(DOMAIN found)
    PROVE  /\ AddressesOf(names) \in Seq(Nat)
           /\ ToSet(AddressesOf(names)) = AddressesAmong(ToSet(names))
<1>1. PICK m \in Nat : m = Len(names)
    BY FirstOnes
<1> DEFINE Turn(h, i) == h \o found[names[i]].addresses
           Loop(f) == f = [i \in 0 .. m |->
                             IF i = 0 THEN <<>> ELSE f[i - 1] \o found[names[i]].addresses]
<1>2. PICK Good : Good = [i \in 0 .. m |->
                            {h \in Seq(Nat) : ToSet(h) = AddressesAmong(Before(names, i))}]
    OBVIOUS
<1>3. \A i \in 0 .. m : \A h :
          h \in Good[i] <=> h \in Seq(Nat) /\ ToSet(h) = AddressesAmong(Before(names, i))
    BY <1>2
<1>4. <<>> \in Good[0]
  <2>1. PICK none : none = <<>>
    OBVIOUS
  <2>2. none \in Seq(Nat)
    BY <2>1
  <2>3. ToSet(none) = {}
    BY <2>1 DEF ToSet
  <2>4. Before(names, 0) = {} /\ 0 \in 0 .. m
    BY FirstOnes
  <2>5. AddressesAmong({}) = {}
    BY DEF AddressesAmong
  <2> QED
    BY <1>3, <2>1, <2>2, <2>3, <2>4, <2>5
<1>5. ASSUME NEW i \in 1 .. m, NEW h \in Good[i - 1] PROVE Turn(h, i) \in Good[i]
  <2>1. i - 1 \in 0 .. m /\ i \in 0 .. m
    OBVIOUS
  <2>2. h \in Seq(Nat) /\ ToSet(h) = AddressesAmong(Before(names, i - 1))
    BY <1>3, <2>1
  <2>3. names[i] \in DOMAIN found /\ Before(names, i) = Before(names, i - 1) \cup {names[i]}
    BY <1>1, FirstOnes
  <2>4. PICK a : a = found[names[i]].addresses
    OBVIOUS
  <2>5. a \in Seq(Nat)
    <3>1. found[names[i]] \in Instances
      BY <2>3 DEF IsMap
    <3> QED
      BY <2>4, <3>1 DEF Instances
  <2>6. h \o a \in Seq(Nat) /\ ToSet(h \o a) = ToSet(h) \cup ToSet(a)
    BY <2>2, <2>5, ToSetOfBoth
  <2>7. AddressesAmong(Before(names, i)) = AddressesAmong(Before(names, i - 1)) \cup ToSet(a)
    BY <2>3, <2>4 DEF AddressesAmong
  <2>8. h \o a \in Good[i]
    BY <1>3, <2>1, <2>2, <2>6, <2>7
  <2> QED
    BY <2>4, <2>8
<1>6. \E f : Loop(f)
  <2>1. PICK op : op = [i \in 1 .. m |-> [h \in Good[i - 1] |-> Turn(h, i)]]
    OBVIOUS
  <2> HIDE DEF Turn
  <2>2. \A i \in 1 .. m : \A h \in Good[i - 1] : op[i][h] = Turn(h, i)
    BY <2>1
  <2>3. LeadsOn(op, Good, m)
    BY <1>5, <2>2 DEF LeadsOn
  <2>4. PICK f : LeadsFrom(f, <<>>, op, Good, m)
    BY <1>4, <2>3, GuardedLoop
  <2>5. /\ f = [i \in 0 .. m |-> f[i]] /\ f[0] = <<>>
        /\ \A i \in 0 .. m : f[i] \in Good[i]
        /\ \A i \in 1 .. m : f[i] = op[i][f[i - 1]]
    BY <2>4 DEF LeadsFrom
  <2>6. ASSUME NEW i \in 0 .. m
        PROVE  f[i] = IF i = 0 THEN <<>> ELSE Turn(f[i - 1], i)
    <3>1. i # 0 => i \in 1 .. m /\ i - 1 \in 0 .. m
      OBVIOUS
    <3> QED
      BY <2>2, <2>5, <3>1
  <2>7. f = [i \in 0 .. m |-> IF i = 0 THEN <<>> ELSE Turn(f[i - 1], i)]
    BY <2>5, <2>6
  <2> QED
    BY <2>7 DEF Turn
<1>7. PICK f : f = CHOOSE g : Loop(g)
    OBVIOUS
<1>8. Loop(f)
  <2> HIDE DEF Loop
  <2> QED
    BY <1>6, <1>7
<1>9. AddressesOf(names) = f[m]
    BY <1>1, <1>7 DEF AddressesOf
<1>10. f[0] = <<>> /\ \A i \in 1 .. m : f[i] = Turn(f[i - 1], i)
  <2>1. \A i \in 0 .. m : f[i] = IF i = 0 THEN <<>> ELSE Turn(f[i - 1], i)
    BY <1>8
  <2> HIDE DEF Turn, Loop
  <2> QED
    BY <2>1
<1> HIDE DEF Loop, Turn
<1>11. \A i \in 0 .. m : f[i] \in Good[i]
    BY <1>4, <1>5, <1>10, LoopReaches
<1>12. f[m] \in Good[m] /\ m \in 0 .. m
    BY <1>11
<1>13. f[m] \in Seq(Nat) /\ ToSet(f[m]) = AddressesAmong(Before(names, m))
    BY <1>3, <1>12
<1>14. Before(names, m) = ToSet(names)
    BY <1>1, FirstOnes
<1> QED
    BY <1>9, <1>13, <1>14

\* A node's addresses are dialled in order and each once.
LEMMA AddressesOnce ==
    ASSUME IsMap(found)
    PROVE  EachAddressOnce
<1>1. SUFFICES ASSUME NEW label, NEW list, list = OperationalAddresses(label)
               PROVE  /\ \A i, j \in 1 .. Len(list) : i < j => list[i] < list[j]
                      /\ ToSet(list) = UNION {ToSet(found[n].addresses) :
                                                n \in {m \in Usable : m.label = label}}
    BY DEF EachAddressOnce
<1>2. PICK S : S = {n \in Usable : n.label = label}
    OBVIOUS
<1>3. S \in SUBSET DOMAIN found
    BY <1>2 DEF Usable
<1>4. IsFiniteSet(S)
    BY <1>3, FS_Subset DEF IsMap
<1>5. PICK names : names = SetToSeq(S)
    OBVIOUS
<1>6. names \in Seq(S) /\ ToSet(names) = S
    BY <1>4, <1>5, ListOfSet
<1>7. names \in Seq(DOMAIN found)
    BY <1>3, <1>6
<1>8. PICK s : s = AddressesOf(names)
    OBVIOUS
<1>9. s \in Seq(Nat) /\ ToSet(s) = AddressesAmong(S)
    BY <1>6, <1>7, <1>8, AddressesOfAre
<1>10. list = Dialled(s)
    BY <1>1, <1>2, <1>5, <1>8 DEF OperationalAddresses
<1>11. Rising(list) /\ ToSet(list) = AddressesAmong(S)
    BY <1>9, <1>10, DialledIs
<1> QED
    BY <1>2, <1>11 DEF Rising, AddressesAmong

-----------------------------------------------------------------------------
(* Browsing: the invariant.                                                *)

\* What links were asked and are still to be.
LinksInv ==
    /\ asked \in Seq(Nat) /\ links \in Seq(Nat \ {0})
    /\ Distinct(asked) /\ Distinct(links) /\ ToSet(asked) \cap ToSet(links) = {}
    /\ browse \in {"off", "v4"} => asked = <<>> /\ links = <<>>
    /\ browse = "v6" => links = <<>> /\ asked \in {<<>>, <<0>>}
    /\ browse = "failed" => asked = <<>>

\* The responder runs where the list of interfaces said.
ResponderInv ==
    \/ responder = NotPrepared
    \/ \E entries \in Interfaces :
          /\ responder.listed = entries /\ responder.index = SelectInterface(entries)

\* What was found is what was heard.
HeardInv ==
    /\ IsMap(found) /\ heard \in Seq(Answers)
    /\ DOMAIN found = NamedUpTo(Len(heard))
    /\ \A n \in InstanceNames :
          /\ TextIn(found, n) = Told(n)
          /\ \A answer \in ToSet(heard) : ServedIn(ToSet(answer), n) => PortIn(found, n)
          /\ AddressesIn(found, n) = Given(n) \cup Strays(n)

BrowserInv == LinksInv /\ ResponderInv /\ HeardInv

\* A list that one more was added to has that one and what it had.
LEMMA AppendedSet ==
    ASSUME NEW S, NEW s \in Seq(S), NEW x \in S
    PROVE  Append(s, x) \in Seq(S) /\ ToSet(Append(s, x)) = ToSet(s) \cup {x}
<1>1. PICK m \in Nat : m = Len(s)
    BY LenProperties
<1>2. PICK t : t = Append(s, x)
    OBVIOUS
<1>3. /\ t \in Seq(S) /\ Len(t) = m + 1 /\ t[m + 1] = x
      /\ \A i \in 1 .. m : t[i] = s[i]
    BY <1>1, <1>2, AppendProperties
<1>4. Before(t, m) = Before(s, m)
    BY <1>3 DEF Before
<1>5. Before(t, m + 1) = Before(t, m) \cup {t[m + 1]} /\ Before(t, m + 1) = ToSet(t)
  <2>1. m + 1 \in 1 .. Len(t) /\ (m + 1) - 1 = m
    BY <1>3
  <2> QED
    BY <1>3, <2>1, FirstOnes
<1>6. Before(s, m) = ToSet(s)
    BY <1>1, FirstOnes
<1> QED
    BY <1>2, <1>3, <1>4, <1>5, <1>6

\* A list without its head.
LEMMA WithoutHead ==
    ASSUME NEW S, NEW s \in Seq(S), Distinct(s), s # <<>>
    PROVE  /\ Head(s) \in S /\ Tail(s) \in Seq(S) /\ Distinct(Tail(s))
           /\ Head(s) \in ToSet(s) /\ ToSet(Tail(s)) = ToSet(s) \ {Head(s)}
<1>1. PICK m \in Nat \ {0} : m = Len(s)
    BY EmptySeq
<1>2. PICK t : t = Tail(s)
    OBVIOUS
<1>3. PICK x : x = Head(s)
    OBVIOUS
<1>4. x \in S /\ t \in Seq(S) /\ Len(t) = m - 1 /\ \A i \in 1 .. m - 1 : t[i] = s[i + 1]
    BY <1>1, <1>2, <1>3, HeadTailProperties
<1>5. x = s[1]
    BY <1>3
<1>6. ToSet(s) = {s[i] : i \in 1 .. m} /\ ToSet(t) = {t[i] : i \in 1 .. m - 1}
    BY <1>1, <1>4, LenProperties DEF ToSet
<1>7. \A i, j \in 1 .. m : s[i] = s[j] => i = j
    BY <1>1 DEF Distinct
<1>8. \A i \in 1 .. m - 1 : i + 1 \in 1 .. m /\ i + 1 # 1
    BY <1>1
<1>9. 1 \in 1 .. m /\ \A i \in 1 .. m : i = 1 \/ (i - 1 \in 1 .. m - 1 /\ (i - 1) + 1 = i)
    BY <1>1
<1>10. Distinct(t)
  <2>1. SUFFICES ASSUME NEW i \in 1 .. m - 1, NEW j \in 1 .. m - 1, t[i] = t[j] PROVE i = j
    BY <1>4 DEF Distinct
  <2>2. i + 1 = j + 1
    BY <1>4, <1>7, <1>8, <2>1
  <2> QED
    BY <2>2
<1>11. ToSet(t) \subseteq ToSet(s) \ {x}
  <2>1. SUFFICES ASSUME NEW i \in 1 .. m - 1 PROVE t[i] \in ToSet(s) \ {x}
    BY <1>6
  <2>2. t[i] = s[i + 1] /\ s[i + 1] # s[1]
    BY <1>4, <1>7, <1>8, <1>9
  <2> QED
    BY <1>5, <1>6, <1>8, <2>2
<1>12. ToSet(s) \ {x} \subseteq ToSet(t)
  <2>1. SUFFICES ASSUME NEW i \in 1 .. m, s[i] # x PROVE s[i] \in ToSet(t)
    BY <1>6
  <2>2. i - 1 \in 1 .. m - 1 /\ (i - 1) + 1 = i
    BY <1>5, <1>9, <2>1
  <2>3. t[i - 1] = s[i]
    BY <1>4, <2>2
  <2> QED
    BY <1>6, <2>2, <2>3
<1>13. x \in ToSet(s)
    BY <1>5, <1>6, <1>9
<1> QED
    BY <1>2, <1>3, <1>4, <1>10, <1>11, <1>12, <1>13

\* There is no more in a list of none, and only 0 in the list of 0.
LEMMA ShortLists ==
    /\ <<>> \in Seq(Nat) /\ <<>> \in Seq(Nat \ {0}) /\ <<>> \in Seq(Answers)
    /\ Distinct(<<>>) /\ ToSet(<<>>) = {}
    /\ <<0>> \in Seq(Nat) /\ Distinct(<<0>>) /\ ToSet(<<0>>) = {0}
<1>1. PICK none : none = <<>>
    OBVIOUS
<1>2. none \in Seq(Nat) /\ none \in Seq(Nat \ {0}) /\ none \in Seq(Answers)
    BY <1>1
<1>3. Distinct(none) /\ ToSet(none) = {}
    BY <1>1 DEF Distinct, ToSet
<1>4. PICK one : one = <<0>>
    OBVIOUS
<1>5. one \in Seq(Nat) /\ Len(one) = 1 /\ DOMAIN one = 1 .. 1 /\ one[1] = 0
    BY <1>4
<1>6. Distinct(one)
    BY <1>5 DEF Distinct
<1>7. ToSet(one) = {0}
    BY <1>5 DEF ToSet
<1> QED
    BY <1>1, <1>2, <1>3, <1>4, <1>5, <1>6, <1>7

\* Nothing is asked or heard at first.
LEMMA BrowseStarts == BrowserInit => BrowserInv
<1>1. SUFFICES ASSUME BrowserInit PROVE BrowserInv
    OBVIOUS
<1>2. /\ browse = "off" /\ responder = NotPrepared /\ asked = <<>> /\ links = <<>>
      /\ found = [n \in {} |-> NoInstance] /\ heard = <<>>
    BY <1>1 DEF BrowserInit
<1>3. LinksInv
    BY <1>2, ShortLists DEF LinksInv
<1>4. HeardInv
  <2>1. DOMAIN found = {}
    BY <1>2
  <2>2. IsMap(found)
    <3>1. found = [n \in DOMAIN found |-> found[n]]
      BY <1>2
    <3> QED
      BY <2>1, <3>1, FS_EmptySet DEF IsMap
  <2>3. heard \in Seq(Answers) /\ ToSet(heard) = {}
    BY <1>2, ShortLists
  <2>4. \A n : TextIn(found, n) = {} /\ AddressesIn(found, n) = {}
    BY <2>1 DEF TextIn, AddressesIn
  <2>5. \A n : Told(n) = {} /\ Given(n) = {}
    BY <2>3 DEF Told, Given
  <2>6. Len(heard) = 0 /\ 1 .. Len(heard) = {}
    BY <1>2
  <2>7. NamedUpTo(Len(heard)) = {} /\ \A n : Strays(n) = {}
    BY <2>6 DEF NamedUpTo, Strays
  <2> QED
    BY <2>1, <2>2, <2>3, <2>4, <2>5, <2>7 DEF HeardInv
<1> QED
    BY <1>2, <1>3, <1>4 DEF BrowserInv, ResponderInv

\* The steps that ask leave alone what is heard.
LEMMA HeardStays ==
    ASSUME HeardInv, UNCHANGED <<found, heard>>
    PROVE  HeardInv'
<1>1. found' = found /\ heard' = heard
    OBVIOUS
<1>2. \A n : /\ Told(n)' = Told(n) /\ Given(n)' = Given(n)
             /\ TextIn(found, n)' = TextIn(found, n) /\ (PortIn(found, n)' <=> PortIn(found, n))
             /\ AddressesIn(found, n)' = AddressesIn(found, n)
    BY <1>1 DEF TextIn, AddressesIn, PortIn, Told, Given
<1>3. \A i : NamedUpTo(i)' = NamedUpTo(i)
    BY <1>1 DEF NamedUpTo
<1>4. \A n : Strays(n)' = Strays(n)
    BY <1>1, <1>3 DEF Strays
<1>5. NamedUpTo(Len(heard))' = NamedUpTo(Len(heard))
    BY <1>1 DEF NamedUpTo
<1> QED
    BY <1>1, <1>2, <1>4, <1>5 DEF HeardInv

\* What an answer more makes of the instances named and of the addresses that
\* were not placed.
LEMMA NamedMore ==
    ASSUME heard \in Seq(Answers), NEW answer \in Answers, heard' = Append(heard, answer), NEW n
    PROVE  /\ NamedUpTo(Len(heard))' = NamedUpTo(Len(heard)) \cup NamedBy(answer)
           /\ Strays(n)' = Strays(n) \cup
                 (IF NamedUpTo(Len(heard)) \cup NamedBy(answer) = {n} THEN StraysOf(answer) ELSE {})
<1>1. PICK m \in Nat : m = Len(heard)
    BY LenProperties
<1>2. PICK t : t = heard'
    OBVIOUS
<1>3. Len(t) = m + 1 /\ t[m + 1] = answer /\ \A j \in 1 .. m : t[j] = heard[j]
    BY <1>1, <1>2, AppendProperties
<1> DEFINE Up(s, i) == UNION {NamedBy(s[j]) : j \in 1 .. i}
           Lost(s, i) == UNION {StraysOf(s[k]) : k \in {j \in 1 .. i : Up(s, j) = {n}}}
<1>4. /\ \A i : NamedUpTo(i) = Up(heard, i) /\ NamedUpTo(i)' = Up(t, i)
      /\ Strays(n) = Lost(heard, m) /\ Strays(n)' = Lost(t, m + 1)
    BY <1>1, <1>2, <1>3 DEF NamedUpTo, Strays
<1>5. ASSUME NEW i \in 1 .. m PROVE Up(t, i) = Up(heard, i)
  <2>1. \A j \in 1 .. i : t[j] = heard[j]
    BY <1>3, <1>5
  <2> QED
    BY <2>1
<1>6. \A j : j \in 1 .. m + 1 <=> j \in 1 .. m \/ j = m + 1
    OBVIOUS
<1>7. Up(t, m + 1) = Up(heard, m) \cup NamedBy(answer)
    BY <1>3, <1>6
<1>8. Lost(t, m + 1) = Lost(heard, m) \cup (IF Up(t, m + 1) = {n} THEN StraysOf(answer) ELSE {})
  <2> HIDE DEF Up
  <2>1. CASE Up(t, m + 1) = {n}
    <3>1. \A j : j \in 1 .. m + 1 /\ Up(t, j) = {n} <=>
                     (j \in 1 .. m /\ Up(heard, j) = {n}) \/ j = m + 1
      BY <1>5, <1>6, <2>1
    <3> QED
      BY <1>3, <2>1, <3>1
  <2>2. CASE Up(t, m + 1) # {n}
    <3>1. \A j : j \in 1 .. m + 1 /\ Up(t, j) = {n} <=> j \in 1 .. m /\ Up(heard, j) = {n}
      BY <1>5, <1>6, <2>2
    <3> QED
      BY <1>3, <2>2, <3>1
  <2> QED
    BY <2>1, <2>2
<1> HIDE DEF Up, Lost
<1>9. NamedUpTo(Len(heard))' = Up(t, m + 1) /\ NamedUpTo(Len(heard)) = Up(heard, m)
  <2>1. Len(heard)' = m + 1
    BY <1>2, <1>3
  <2> QED
    BY <1>1, <1>2, <2>1 DEF NamedUpTo, Up
<1> QED
    BY <1>4, <1>7, <1>8, <1>9

\* An answer adds to the map what it tells and gives.
LEMMA AnswerHeard ==
    ASSUME BrowserInv, NEW answer \in Answers, ReceiveAnswer(answer)
    PROVE  BrowserInv'
<1>1. /\ browse = "listen" /\ found' = CollectAnswers(found, answer)
      /\ heard' = Append(heard, answer)
      /\ responder' = responder /\ browse' = browse /\ asked' = asked /\ links' = links
    BY DEF ReceiveAnswer
<1>2. IsMap(found) /\ heard \in Seq(Answers)
    BY DEF BrowserInv, HeardInv
<1>3. heard' \in Seq(Answers) /\ ToSet(heard') = ToSet(heard) \cup {answer}
    BY <1>1, <1>2, AppendedSet
<1>4. IsMap(found') /\ DOMAIN found' = DOMAIN found \cup NamedBy(answer)
    BY <1>1, <1>2, CollectIs
<1>10. DOMAIN found = NamedUpTo(Len(heard))
    BY DEF BrowserInv, HeardInv
<1>11. DOMAIN found' = NamedUpTo(Len(heard))'
    BY <1>1, <1>2, <1>4, <1>10, NamedMore
<1>5. ASSUME NEW n \in InstanceNames
      PROVE  /\ TextIn(found', n) = TextIn(found, n) \cup ToldBy(answer, n)
             /\ PortIn(found', n) <=> PortIn(found, n) \/ ServedIn(ToSet(answer), n)
             /\ AddressesIn(found', n) = AddressesIn(found, n) \cup Adds(found, answer, n)
    BY <1>1, <1>2, CollectIs
<1>6. ASSUME NEW n \in InstanceNames
      PROVE  /\ TextIn(found', n) = Told(n)'
             /\ \A a \in ToSet(heard') : ServedIn(ToSet(a), n) => PortIn(found', n)
             /\ AddressesIn(found', n) = Given(n)' \cup Strays(n)'
  <2>1. /\ TextIn(found, n) = Told(n)
        /\ \A a \in ToSet(heard) : ServedIn(ToSet(a), n) => PortIn(found, n)
        /\ AddressesIn(found, n) = Given(n) \cup Strays(n)
    BY DEF BrowserInv, HeardInv
  <2>2. Told(n)' = Told(n) \cup ToldBy(answer, n)
    BY <1>3 DEF Told
  <2>3. Given(n)' = Given(n) \cup GivenBy(answer, n)
    BY <1>3 DEF Given
  <2>4. TextIn(found', n) = Told(n)'
    BY <1>5, <2>1, <2>2
  <2>5. ASSUME NEW a \in ToSet(heard'), ServedIn(ToSet(a), n) PROVE PortIn(found', n)
    <3>1. a \in ToSet(heard) \/ a = answer
      BY <1>3
    <3> QED
      BY <1>5, <2>1, <2>5, <3>1
  <2>6. AddressesIn(found', n) = Given(n)' \cup Strays(n)'
    <3>1. Strays(n)' = Strays(n) \cup
              (IF DOMAIN found \cup NamedBy(answer) = {n} THEN StraysOf(answer) ELSE {})
      BY <1>1, <1>2, <1>10, NamedMore
    <3>2. AddressesIn(found', n) = AddressesIn(found, n) \cup GivenBy(answer, n) \cup
              (IF DOMAIN found \cup NamedBy(answer) = {n} THEN StraysOf(answer) ELSE {})
      BY <1>5 DEF Adds
    <3> QED
      BY <2>1, <2>3, <3>1, <3>2
  <2> QED
    BY <2>4, <2>5, <2>6
<1>7. HeardInv'
    BY <1>3, <1>4, <1>6, <1>11 DEF HeardInv, TextIn, AddressesIn, PortIn
<1>8. LinksInv'
    BY <1>1 DEF BrowserInv, LinksInv
<1>9. ResponderInv'
    BY <1>1 DEF BrowserInv, ResponderInv
<1> QED
    BY <1>7, <1>8, <1>9 DEF BrowserInv

\* The steps that ask.
LEMMA QueryStep ==
    ASSUME BrowserInv,
           \/ \E ok \in BOOLEAN : AskV4(ok) \/ AskLink(ok)
           \/ \E ok \in BOOLEAN, entries \in Interfaces : AskV6(ok, entries)
    PROVE  LinksInv'
<1>1. CASE \E ok \in BOOLEAN : AskV4(ok)
  <2>1. PICK ok \in BOOLEAN : AskV4(ok)
    BY <1>1
  <2>2. /\ browse = "v4" /\ browse' = "v6" /\ links' = links
        /\ asked' = <<0>> \/ asked' = <<>>
    BY <2>1 DEF AskV4
  <2>3. links = <<>>
    BY <2>2 DEF BrowserInv, LinksInv
  <2> QED
    BY <2>2, <2>3, ShortLists DEF LinksInv
<1>2. CASE \E ok \in BOOLEAN, entries \in Interfaces : AskV6(ok, entries)
  <2>1. PICK ok \in BOOLEAN, entries \in Interfaces : AskV6(ok, entries)
    BY <1>2
  <2>2. /\ browse = "v6" /\ browse' = "links" /\ asked' = asked
        /\ links' = LinksOf(entries) \/ links' = <<>>
    BY <2>1 DEF AskV6
  <2>3. links' \in Seq(Nat \ {0}) /\ Distinct(links')
    BY <2>2, LinksAre, ShortLists
  <2>4. ToSet(links') \subseteq Nat \ {0}
    BY <2>3, LenProperties DEF ToSet
  <2>5. asked \in {<<>>, <<0>>}
    BY <2>2 DEF BrowserInv, LinksInv
  <2>6. ToSet(asked) \subseteq {0}
    BY <2>5, ShortLists
  <2>7. asked \in Seq(Nat) /\ Distinct(asked)
    BY DEF BrowserInv, LinksInv
  <2> QED
    BY <2>2, <2>3, <2>4, <2>6, <2>7 DEF LinksInv
<1>3. CASE \E ok \in BOOLEAN : AskLink(ok)
  <2>1. PICK ok \in BOOLEAN : AskLink(ok)
    BY <1>3
  <2>2. /\ browse = "links" /\ links # <<>> /\ links' = Tail(links) /\ browse' = browse
        /\ asked' = Append(asked, Head(links)) \/ asked' = asked
    BY <2>1 DEF AskLink
  <2>3. /\ asked \in Seq(Nat) /\ Distinct(asked) /\ links \in Seq(Nat \ {0}) /\ Distinct(links)
        /\ ToSet(asked) \cap ToSet(links) = {}
    BY DEF BrowserInv, LinksInv
  <2>4. /\ Head(links) \in Nat \ {0} /\ Tail(links) \in Seq(Nat \ {0}) /\ Distinct(Tail(links))
        /\ Head(links) \in ToSet(links) /\ ToSet(Tail(links)) = ToSet(links) \ {Head(links)}
    BY <2>2, <2>3, WithoutHead
  <2>5. Head(links) \notin ToSet(asked)
    BY <2>3, <2>4
  <2>6. /\ Append(asked, Head(links)) \in Seq(Nat) /\ Distinct(Append(asked, Head(links)))
        /\ ToSet(Append(asked, Head(links))) = ToSet(asked) \cup {Head(links)}
    BY <2>3, <2>4, <2>5, DistinctAppended
  <2> QED
    BY <2>2, <2>3, <2>4, <2>6 DEF LinksInv
<1> QED
    BY <1>1, <1>2, <1>3

\* Each step of a browse keeps the invariant.
LEMMA BrowseStep == BrowserInv /\ [BrowserNext]_browserVars => BrowserInv'
<1>1. SUFFICES ASSUME BrowserInv, [BrowserNext]_browserVars PROVE BrowserInv'
    OBVIOUS
<1>2. CASE \E entries \in Interfaces, ok \in BOOLEAN : PrepareMdns(entries, ok)
  <2>1. PICK entries \in Interfaces, ok \in BOOLEAN : PrepareMdns(entries, ok)
    BY <1>2
  <2>2. /\ browse = "off" /\ browse' \in {"off", "v4"}
        /\ responder' = [listed |-> entries, index |-> SelectInterface(entries), bound |-> ok]
        /\ asked' = asked /\ links' = links /\ UNCHANGED <<found, heard>>
    BY <2>1 DEF PrepareMdns
  <2>3. LinksInv'
    BY <1>1, <2>2 DEF BrowserInv, LinksInv
  <2>4. ResponderInv'
    BY <2>2 DEF ResponderInv
  <2> QED
    BY <1>1, <2>2, <2>3, <2>4, HeardStays DEF BrowserInv
<1>3. CASE \E ok \in BOOLEAN : AskV4(ok) \/ AskLink(ok)
  <2>1. LinksInv'
    BY <1>1, <1>3, QueryStep
  <2>2. responder' = responder /\ UNCHANGED <<found, heard>>
    BY <1>3 DEF AskV4, AskLink
  <2> QED
    BY <1>1, <2>1, <2>2, HeardStays DEF BrowserInv, ResponderInv
<1>4. CASE \E entries \in Interfaces, ok \in BOOLEAN : AskV6(ok, entries)
  <2>1. LinksInv'
    BY <1>1, <1>4, QueryStep
  <2>2. responder' = responder /\ UNCHANGED <<found, heard>>
    BY <1>4 DEF AskV6
  <2> QED
    BY <1>1, <2>1, <2>2, HeardStays DEF BrowserInv, ResponderInv
<1>5. CASE Asked
  <2>1. /\ browse = "links" /\ browse' \in {"failed", "listen"}
        /\ browse' = "failed" => asked = <<>>
        /\ asked' = asked /\ links' = links
        /\ responder' = responder /\ UNCHANGED <<found, heard>>
    BY <1>5 DEF Asked
  <2>2. LinksInv'
    BY <1>1, <2>1 DEF BrowserInv, LinksInv
  <2> QED
    BY <1>1, <2>1, <2>2, HeardStays DEF BrowserInv, ResponderInv
<1>6. CASE Deadline
  <2>1. /\ browse' = "done" /\ asked' = asked /\ links' = links
        /\ responder' = responder /\ UNCHANGED <<found, heard>>
    BY <1>6 DEF Deadline
  <2>2. LinksInv'
    BY <1>1, <2>1 DEF BrowserInv, LinksInv
  <2> QED
    BY <1>1, <2>1, <2>2, HeardStays DEF BrowserInv, ResponderInv
<1>7. CASE \E answer \in Answers : ReceiveAnswer(answer)
    BY <1>1, <1>7, AnswerHeard
<1>8. CASE UNCHANGED browserVars
  <2>1. /\ browse' = browse /\ asked' = asked /\ links' = links
        /\ responder' = responder /\ UNCHANGED <<found, heard>>
    BY <1>8 DEF browserVars
  <2>2. LinksInv'
    BY <1>1, <2>1 DEF BrowserInv, LinksInv
  <2> QED
    BY <1>1, <2>1, <2>2, HeardStays DEF BrowserInv, ResponderInv
<1> QED
    BY <1>1, <1>2, <1>3, <1>4, <1>5, <1>6, <1>7, <1>8 DEF BrowserNext

\* What is found and heard when the window closes is what is reported.
LEMMA HeardReported ==
    ASSUME HeardInv
    PROVE  HeardIsReported
<1>1. SUFFICES ASSUME browse = "done",
                      NEW answer \in ToSet(heard),
                      NEW r \in ToSet(answer), r.type = "SRV", ~ r.foreign
               PROVE  \E b \in BorderRouters :
                         /\ b.label = r.name.label
                         /\ b.addresses = Given(r.name) \cup Strays(r.name)
                         /\ b.txt = Told(r.name)
    BY DEF HeardIsReported
<1>2. heard \in Seq(Answers) /\ ToSet(heard) = {heard[i] : i \in 1 .. Len(heard)}
    BY LenProperties DEF HeardInv, ToSet
<1>4. answer \in Answers
    BY <1>2, ElementOfSeq
<1>5. PICK n \in InstanceNames : n = r.name
    BY <1>4 DEF InstanceNames, Records
<1>6. ServedIn(ToSet(answer), n)
    BY <1>1, <1>5 DEF ServedIn
<1>7. PortIn(found, n)
    BY <1>1, <1>6 DEF HeardInv
<1>8. TextIn(found, n) = Told(n) /\ AddressesIn(found, n) = Given(n) \cup Strays(n)
    BY DEF HeardInv
<1>9. /\ n \in DOMAIN found /\ found[n].port
      /\ found[n].txt = Told(n) /\ ToSet(found[n].addresses) = Given(n) \cup Strays(n)
    BY <1>7, <1>8 DEF PortIn, TextIn, AddressesIn
<1>10. n \in Usable
    BY <1>1, <1>9 DEF Usable
<1>11. PICK b : b = [label |-> n.label, host |-> found[n].host,
                     addresses |-> ToSet(found[n].addresses), txt |-> found[n].txt]
    OBVIOUS
<1>12. b \in BorderRouters
    BY <1>10, <1>11 DEF BorderRouters
<1>13. b.label = n.label /\ b.addresses = Given(n) \cup Strays(n) /\ b.txt = Told(n)
    BY <1>9, <1>11
<1> QED
    BY <1>5, <1>12, <1>13

\* The invariant has what is promised of a browse.
LEMMA BrowseHolds ==
    ASSUME BrowserInv
    PROVE  OneFamilyIsEnough /\ ResponderHasItsLink /\ HeardIsReported /\ EachAddressOnce
<1>1. OneFamilyIsEnough
    BY DEF BrowserInv, LinksInv, Distinct, OneFamilyIsEnough
<1>2. ResponderHasItsLink
  <2>1. CASE responder = NotPrepared
    <3>1. PICK none : none = <<>>
      OBVIOUS
    <3>2. responder.index = 0 /\ responder.listed = none
      BY <2>1, <3>1 DEF NotPrepared
    <3>3. ToSet(responder.listed) = {}
      BY <3>1, <3>2, ShortLists
    <3> QED
      BY <3>2, <3>3 DEF ResponderHasItsLink
  <2>2. ASSUME NEW entries \in Interfaces,
               responder.listed = entries, responder.index = SelectInterface(entries)
        PROVE  ResponderHasItsLink
    <3>2. IF SelectInterface(entries) = 0
          THEN \A e \in ToSet(entries) : ~ (Lists(entries, e.index, "v4") /\ Lists(entries, e.index, "v6"))
          ELSE /\ Lists(entries, SelectInterface(entries), "v4")
               /\ Lists(entries, SelectInterface(entries), "v6")
      BY InterfaceIs
    <3> QED
      BY <2>2, <3>2 DEF ResponderHasItsLink, Lists
  <2> QED
    BY <2>1, <2>2 DEF BrowserInv, ResponderInv
<1>3. HeardIsReported
    BY HeardReported DEF BrowserInv
<1>4. EachAddressOnce
    BY AddressesOnce DEF BrowserInv, HeardInv
<1> QED
    BY <1>1, <1>2, <1>3, <1>4

\* The invariant has what is promised of a name.
LEMMA WalkHolds ==
    ASSUME WalkInv
    PROVE  NameWalkEnds /\ NameEndsWhereWritten
<1>1. NameLength * (walk.jumps + 1) = NameLength * walk.jumps + NameLength
    BY WalkFields
<1>2. NameWalkEnds
    BY <1>1 DEF WalkInv, BoundInv, NameWalkEnds
<1> QED
    BY <1>2 DEF WalkInv, WrittenInv, NameEndsWhereWritten

\* A browse asks every link once and goes on with those that could be asked;
\* however records are split over answers and in whatever order these come, it
\* reports an announced device with its TXT record and with exactly the
\* addresses that came with the SRV for their host, or without one while no
\* other device was named; an address is dialled once and in its place; and the
\* walk of a name in an answer ends wherever its pointers lead, with what comes
\* after the name looked for where the name as written ends (mdns_browser.rs).
THEOREM BrowseWhole == BrowserSpec => []BrowseIsWhole
<1>1. BrowserInit /\ NameInit => BrowserInv /\ WalkInv
    BY BrowseStarts, WalkStarts
<1>2. BrowserInv /\ WalkInv
      /\ [\/ BrowserNext /\ UNCHANGED nameVars
          \/ NameNext /\ UNCHANGED browserVars]_<<browserVars, nameVars>>
      => BrowserInv' /\ WalkInv'
  <2>1. SUFFICES ASSUME BrowserInv, WalkInv,
                        [\/ BrowserNext /\ UNCHANGED nameVars
                         \/ NameNext /\ UNCHANGED browserVars]_<<browserVars, nameVars>>
                 PROVE  BrowserInv' /\ WalkInv'
    OBVIOUS
  <2>2. [BrowserNext]_browserVars /\ [NameNext]_nameVars
    BY <2>1
  <2> QED
    BY <2>1, <2>2, BrowseStep, WalkStep
<1>3. BrowserInv /\ WalkInv => BrowseIsWhole
    BY BrowseHolds, WalkHolds DEF BrowseIsWhole
<1> QED
    BY <1>1, <1>2, <1>3, PTL DEF BrowserSpec
=============================================================================
