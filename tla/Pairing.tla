------------------------------ MODULE Pairing ------------------------------
(***************************************************************************)
(* open_commissioning_window and discover                                  *)
(* (server/src/api/commissioning.rs).                                      *)
(*                                                                         *)
(* A client asks a device of this fabric to let another controller join,   *)
(* under a passcode made up here, and is answered with the pairing codes;  *)
(* whoever has the codes looks for the device by them.  A discriminator    *)
(* has high and low bits, of which a manual code carries the high ones:    *)
(* there are HighSpan values of these and LowSpan of the others.  That a   *)
(* device opens one window at a time, and what it announces meanwhile, is  *)
(* the device's part (external).                                           *)
(***************************************************************************)
EXTENDS Integers, Sequences, FiniteSets

CONSTANTS
    Askers,         \* connections that ask for windows
    Accessories,    \* devices of the fabric
    HighSpan, LowSpan, \* 2^4 and 2^8
    Draws,          \* what the random numbers may be
    PasscodeModulus,
    Forbidden,      \* FORBIDDEN_PASSCODES
    MaxWindows      \* bound: windows that are opened

ASSUME PairingAssumption ==
    /\ {HighSpan, LowSpan, PasscodeModulus} \subseteq Nat \ {0}
    /\ {MaxWindows} \cup Draws \cup Forbidden \subseteq Nat

VARIABLES
    asking,     \* what each connection is doing
    stored,     \* the devices the node store holds
    window,     \* the window that is open on each device
    windows,    \* windows opened so far
    codes       \* history: the answers

pairingVars == <<asking, stored, window, windows, codes>>

Unset == -1
Closed == [number |-> 0, passcode |-> Unset, discriminator |-> Unset]
NoDevice == "none"
NotAsking == [at |-> "idle", device |-> NoDevice, passcode |-> Unset, discriminator |-> Unset,
              number |-> 0]
Discriminators == 0 .. HighSpan * LowSpan - 1

PairingInit ==
    /\ asking = [c \in Askers |-> NotAsking]
    /\ stored = Accessories
    /\ window = [n \in Accessories |-> Closed]
    /\ windows = 0 /\ codes = {}

-----------------------------------------------------------------------------
(* open_commissioning_window.                                              *)

\* random_passcode draws until a number will do.
Passcodes == {d % PasscodeModulus : d \in Draws} \ (Forbidden \cup {0})

\* The discriminator is the client's, if it fits, or random_discriminator's.
Fits(wanted) == wanted = Unset \/ wanted \in Discriminators
Chosen(wanted) ==
    IF wanted = Unset THEN {d % (HighSpan * LowSpan) : d \in Draws} ELSE {wanted}

Ask(c, n, wanted) ==
    /\ asking[c].at = "idle"
    /\ n \in stored /\ Fits(wanted)
    /\ \E p \in Passcodes, d \in Chosen(wanted) :
          asking' = [asking EXCEPT ![c] = [at |-> "verifier", device |-> n, passcode |-> p,
                                           discriminator |-> d, number |-> 0]]
    /\ UNCHANGED <<stored, window, windows, codes>>

\* require_node, or an argument that will not do.
AskRefused(c, n, wanted) ==
    /\ asking[c].at = "idle"
    /\ n \notin stored \/ ~ Fits(wanted)
    /\ UNCHANGED pairingVars

\* pake_verifier, on the Matter thread.
Verifier(c) ==
    /\ asking[c].at = "verifier"
    /\ asking' = [asking EXCEPT ![c].at = "invoke"]
    /\ UNCHANGED <<stored, window, windows, codes>>

\* The device opens the window, and its answer may not arrive.
WindowOpens(c, lost) ==
    LET n == asking[c].device IN
    /\ asking[c].at = "invoke" /\ window[n] = Closed /\ windows < MaxWindows
    /\ windows' = windows + 1
    /\ window' = [window EXCEPT ![n] =
                     [number |-> windows + 1, passcode |-> asking[c].passcode,
                      discriminator |-> asking[c].discriminator]]
    /\ asking' = [asking EXCEPT ![c] = IF lost THEN NotAsking ELSE [@ EXCEPT !.at = "codes", !.number = windows + 1]]
    /\ UNCHANGED <<stored, codes>>

\* A step fails: the device is busy with another window, or is not reached.
AskFails(c) ==
    /\ asking[c].at \in {"verifier", "invoke"}
    /\ asking' = [asking EXCEPT ![c] = NotAsking]
    /\ UNCHANGED <<stored, window, windows, codes>>

\* Mutant: the codes are those of a default discriminator.
CodesOfDefault(c) == [passcode |-> asking[c].passcode, discriminator |-> 0]

\* pairing_codes, of what the device was sent.
CodesOf(c) == [passcode |-> asking[c].passcode, discriminator |-> asking[c].discriminator]

\* The answer needs the node once more.
PairingCodes(c) ==
    /\ asking[c].at = "codes"
    /\ codes' = IF asking[c].device \in stored
                THEN codes \cup {[device |-> asking[c].device, number |-> asking[c].number,
                                  code |-> CodesOf(c)]}
                ELSE codes
    /\ asking' = [asking EXCEPT ![c] = NotAsking]
    /\ UNCHANGED <<stored, window, windows>>

\* The window closes, by time or because someone has joined.
WindowCloses(n) ==
    /\ window[n] # Closed
    /\ window' = [window EXCEPT ![n] = Closed]
    /\ UNCHANGED <<asking, stored, windows, codes>>

RemoveAccessory(n) ==
    /\ n \in stored /\ stored' = stored \ {n}
    /\ UNCHANGED <<asking, window, windows, codes>>

-----------------------------------------------------------------------------
(* discover.  When this server cannot browse by itself it leaves the browse, *)
(* and the filter, to the Matter stack (external).                         *)

NoFilter == [discriminator |-> Unset, short |-> Unset, vendor |-> Unset, product |-> Unset,
             kind |-> Unset, mode |-> FALSE]

\* Mutant: the low bits of the value are wanted of the discriminator.
ShortOfLow(discriminator) == discriminator % HighSpan

\* What a manual code carries of a discriminator, and what is compared with it.
ShortOf(discriminator) == discriminator \div LowSpan

\* discovery_filter: the fields a client gives, and over them what a filter
\* type and its value say, which may be left out.  Another type is refused.
DiscoveryFilter(fields, type, value) ==
    CASE type \in {Unset, 0} -> fields
      [] type = 1 -> [fields EXCEPT !.short = IF value = Unset THEN Unset ELSE value % HighSpan]
      [] type = 2 -> [fields EXCEPT !.discriminator = value]
      [] type = 3 -> [fields EXCEPT !.vendor = value]
      [] type = 4 -> [fields EXCEPT !.kind = value]

\* matches_filter: a device that does not say is kept.
Agrees(wanted, actual) == wanted = Unset \/ actual = Unset \/ wanted = actual
MatchesFilter(node, filter) ==
    /\ filter.short = Unset \/ node.discriminator = Unset \/ ShortOf(node.discriminator) = filter.short
    /\ filter.mode => node.mode # 0
    /\ Agrees(filter.discriminator, node.discriminator)
    /\ Agrees(filter.vendor, node.vendor)
    /\ Agrees(filter.product, node.product)
    /\ Agrees(filter.kind, node.kind)

\* What a device with an open window may announce of itself; any key of the
\* TXT record may be missing (commissionable_node).
Announcements(w) ==
    [discriminator : {w.discriminator, Unset}, vendor : {1, Unset}, product : {1, Unset},
     kind : {1, Unset}, mode : {2, Unset}]

PairingNext ==
    \/ \E c \in Askers :
          \/ \E n \in Accessories, wanted \in Discriminators \cup {Unset, HighSpan * LowSpan} :
                Ask(c, n, wanted) \/ AskRefused(c, n, wanted)
          \/ Verifier(c) \/ AskFails(c) \/ PairingCodes(c)
          \/ \E lost \in BOOLEAN : WindowOpens(c, lost)
    \/ \E n \in Accessories : WindowCloses(n) \/ RemoveAccessory(n)

PairingSpec == PairingInit /\ [][PairingNext]_pairingVars

-----------------------------------------------------------------------------
(* Properties.                                                             *)

\* The answers whose window is still the one that is open.
Valid == {k \in codes : k.number = window[k.device].number}

\* The codes a client was given open the window it asked for, however many
\* clients have asked for windows on the same device and whoever of them was
\* refused or got no answer; and the passcode is one that a device may use
\* (api/commissioning.rs:222).
CodesOpenTheWindow ==
    \A k \in Valid :
        /\ k.code.passcode = window[k.device].passcode
        /\ k.code.discriminator = window[k.device].discriminator
        /\ k.code.passcode \notin Forbidden \cup {0}

\* discover lists the device for its codes, by the whole discriminator of the
\* QR code and by what the manual code has of it, whatever the device leaves
\* out of its announcement; and it lists no device that says otherwise.
CodesFindTheDevice ==
    \A k \in Valid :
        LET ByQr == DiscoveryFilter(NoFilter, 2, k.code.discriminator)
            ByManual == DiscoveryFilter(NoFilter, 1, k.code.discriminator \div LowSpan)
        IN  /\ \A node \in Announcements(window[k.device]) :
                  MatchesFilter(node, ByQr) /\ MatchesFilter(node, ByManual)
            /\ \A d \in Discriminators :
                  LET node == [discriminator |-> d, vendor |-> 1, product |-> 1, kind |-> 1, mode |-> 2] IN
                  /\ MatchesFilter(node, ByQr) => d = k.code.discriminator
                  /\ MatchesFilter(node, ByManual) =>
                        d \div LowSpan = k.code.discriminator \div LowSpan

\* Whoever is given codes finds the device by them and gets in.
CodesWork == CodesOpenTheWindow /\ CodesFindTheDevice
=============================================================================
