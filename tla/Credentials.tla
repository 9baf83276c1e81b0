---------------------------- MODULE Credentials ----------------------------
(***************************************************************************)
(* The named Wi-Fi credentials and Thread datasets of the configuration    *)
(* (server/src/storage/config.rs) and the commands that set, remove and    *)
(* list them (server/src/api/server_info.rs).  Every operation is one      *)
(* critical section, with its save, which may fail after memory changed.   *)
(*                                                                         *)
(* An id is a name as it was written: in which case, with or without       *)
(* blanks around it.  A Thread entry is an entry whose network is the      *)
(* dataset and that has no secret.                                         *)
(***************************************************************************)
EXTENDS Integers, Sequences

CONSTANTS
    CredentialNames,   \* among them "default", "delete" and ""
    Networks,          \* SSIDs, or datasets
    Secrets,           \* passwords, among them "", the empty one
    MaxCredentialOps   \* bound: commands

ASSUME CredentialAssumption ==
    /\ {"default", "delete", ""} \subseteq CredentialNames
    /\ "" \in Secrets
    /\ MaxCredentialOps \in Nat

VARIABLES
    wifi,       \* [default, more]: the reserved entry, and additional_wifi
    thread,     \* the same for datasets
    saved,      \* both, in config.json
    credOps,    \* how much of the bound is used
    \* History, for the properties.
    given       \* the passwords clients have sent, with the SSID they were for

credVars == <<wifi, thread, saved, credOps, given>>

CredentialIds == [name : CredentialNames, upper : BOOLEAN, padded : BOOLEAN]
DefaultId == [name |-> "default", upper |-> FALSE, padded |-> FALSE]
None == "none"
NoEntry == [network |-> None, secret |-> None]
NoCredentials == [default |-> NoEntry, more |-> <<>>]

Trimmed(id) == [id EXCEPT !.padded = FALSE]

\* Mutant: the ids are compared as they are written.
SameIdAsWritten(a, b) == a = b

\* same_id: trimmed, and whatever the case.
SameId(a, b) == a.name = b.name

\* validate_credential_id: the ids it accepts, and what it makes of one.
ValidId(id) == id.name \notin {"", "delete"}
CanonicalId(id) == IF id.name = "default" THEN DefaultId ELSE Trimmed(id)

\* Mutant: a password is kept whatever network it was for.
KeptSecretOfAny(secret, entry, network) ==
    IF secret \notin {None, ""} THEN secret ELSE entry.secret

\* require_or_keep_secret, with what set_wifi_credentials lets it reuse: None
\* if there is no password to store.
KeptSecret(secret, entry, network) ==
    IF secret \notin {None, ""} THEN secret
    ELSE IF entry.network = network THEN entry.secret
    ELSE None

Positions(more, id) == {i \in 1 .. Len(more) : SameId(more[i].id, id)}

\* The entry an id names: wifi_credentials, thread_dataset.
Lookup(list, id) ==
    IF SameId(id, DefaultId) THEN list.default
    ELSE IF Positions(list.more, id) = {} THEN NoEntry
    ELSE LET i == CHOOSE i \in Positions(list.more, id) :
                     \A j \in Positions(list.more, id) : i <= j
         IN  [network |-> list.more[i].network, secret |-> list.more[i].secret]

\* assert_no_case_clash.
Clashes(more, id) == \E i \in Positions(more, id) : more[i].id # id

\* Put an entry under a canonical id: in its place, or at the end.
Put(list, id, entry) ==
    IF id = DefaultId THEN [list EXCEPT !.default = entry]
    ELSE LET new == [id |-> id, network |-> entry.network, secret |-> entry.secret]
         IN  [list EXCEPT !.more =
                IF Positions(@, id) # {}
                THEN [i \in 1 .. Len(@) |-> IF i \in Positions(@, id) THEN new ELSE @[i]]
                ELSE Append(@, new)]

\* Vec::retain: what is kept of the entries up to each place.
Retained(more, id) ==
    LET kept[i \in 0 .. Len(more)] ==
            IF i = 0 THEN <<>>
            ELSE IF SameId(more[i].id, id) THEN kept[i - 1]
            ELSE Append(kept[i - 1], more[i])
    IN  kept

\* remove_wifi_credentials, remove_thread_dataset: an id is not validated.
Removed(list, id) ==
    IF SameId(id, DefaultId) THEN [list EXCEPT !.default = NoEntry]
    ELSE [list EXCEPT !.more = Retained(@, id)[Len(@)]]

\* ConfigStore::summaries: the ids listed, the reserved one in any case.
SummaryIds(list) ==
    <<DefaultId>> \o [i \in 1 .. Len(list.more) |-> list.more[i].id]

CredInit ==
    /\ wifi = NoCredentials /\ thread = NoCredentials
    /\ saved = [wifi |-> wifi, thread |-> thread]
    /\ credOps = 0
    /\ given = {}

CredOp == credOps < MaxCredentialOps /\ credOps' = credOps + 1

\* save_locked writes both lists, or fails and leaves config.json as it was.
SavesOrNot ==
    saved' \in {saved, [wifi |-> wifi', thread |-> thread']}

\* An id that validate_credential_id or assert_no_case_clash refuses changes
\* nothing.
Settable(list, id) ==
    ValidId(id) /\ (CanonicalId(id) # DefaultId => ~ Clashes(list.more, CanonicalId(id)))

SetWifi(id, network, secret) ==
    LET kept == KeptSecret(secret, Lookup(wifi, CanonicalId(id)), network)
    IN  /\ CredOp
        /\ Settable(wifi, id) /\ kept # None
        /\ wifi' = Put(wifi, CanonicalId(id), [network |-> network, secret |-> kept])
        /\ given' = given \cup {[network |-> network, secret |-> secret]}
        /\ UNCHANGED thread
        /\ SavesOrNot

\* set_thread_dataset, whose argument is valid hex by then.
SetThread(id, dataset) ==
    /\ CredOp
    /\ Settable(thread, id)
    /\ thread' = Put(thread, CanonicalId(id), [network |-> dataset, secret |-> None])
    /\ UNCHANGED <<wifi, given>>
    /\ SavesOrNot

RemoveWifi(id) ==
    /\ CredOp
    /\ wifi' = Removed(wifi, id)
    /\ UNCHANGED <<thread, given>>
    /\ SavesOrNot

RemoveThread(id) ==
    /\ CredOp
    /\ thread' = Removed(thread, id)
    /\ UNCHANGED <<wifi, given>>
    /\ SavesOrNot

\* ConfigStore::load.
CredRestart ==
    /\ CredOp
    /\ wifi' = saved.wifi /\ thread' = saved.thread
    /\ UNCHANGED <<saved, given>>

CredNext ==
    \/ \E id \in CredentialIds :
          \/ \E network \in Networks :
                \/ \E secret \in Secrets \cup {None} : SetWifi(id, network, secret)
                \/ SetThread(id, network)
          \/ RemoveWifi(id) \/ RemoveThread(id)
    \/ CredRestart

CredSpec == CredInit /\ [][CredNext]_credVars

-----------------------------------------------------------------------------
(* Properties.                                                             *)

\* A password is only ever stored with the network a client sent it for: it
\* may be left out to keep the old one, and is then never carried over to
\* another SSID, over any sequence of sets, removals and failed saves.
SecretsStayWithTheirNetwork ==
    \A e \in {wifi.default} \cup {[network |-> wifi.more[i].network, secret |-> wifi.more[i].secret]
                                  : i \in 1 .. Len(wifi.more)} :
        e.network # None => e \in given /\ e.secret # ""

\* A name has one entry however it is written, a reserved name has none in
\* the lists, and so every listed id leads back to the entry it is listed for.
EveryListedIdLeadsBack ==
    \A list \in {wifi, thread} :
        /\ \A i, j \in 1 .. Len(SummaryIds(list)) :
              SummaryIds(list)[i].name = SummaryIds(list)[j].name => i = j
        /\ \A i \in 1 .. Len(list.more) :
              /\ list.more[i].id.name \notin {"default", "delete", ""}
              /\ Lookup(list, list.more[i].id).network = list.more[i].network

\* What a client stored is found again under every id that is listed, and no
\* secret is used for another network (storage/config.rs:210).
CredentialsAreKept == SecretsStayWithTheirNetwork /\ EveryListedIdLeadsBack
=============================================================================
