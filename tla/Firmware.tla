------------------------------ MODULE Firmware ------------------------------
(***************************************************************************)
(* Firmware updates of one product: upload reservations, the image store   *)
(* and update_node (server/src/api/ota.rs), the upload endpoint            *)
(* (server/src/ws/connection.rs), the ledger client with its cache         *)
(* (server/src/matter/dcl.rs), and the provider a device queries and       *)
(* downloads from (server/src/matter/ota_provider.rs).                     *)
(*                                                                         *)
(* Uploads and requests run on the threads of their connections and the    *)
(* provider on the Matter thread; the registry's lock is held for one      *)
(* operation at a time.  The bytes of an image are a number, and it is     *)
(* read in blocks.                                                         *)
(***************************************************************************)
EXTENDS Integers, Sequences, FiniteSets

CONSTANTS
    Hosts,            \* the hosts of clients that upload
    Slots,            \* MAX_IN_FLIGHT_UPLOADS
    UploadTtl,        \* UPLOAD_TTL
    CacheTtl,         \* CACHE_TTL of the ledger client
    FirmwareVersions, \* the versions there are images of
    FirstVersion,     \* the version the device runs at first
    Blocks,           \* the length of an image
    MaxNow,           \* bound: the clock
    MaxTickets,       \* bound: upload ids that are issued
    MaxBytes,         \* bound: different images
    MaxUpdates        \* bound: update requests

ASSUME FirmwareAssumption ==
    /\ {Slots, UploadTtl, CacheTtl, Blocks} \subseteq Nat \ {0}
    /\ FirmwareVersions \cup {FirstVersion} \subseteq Nat \ {0}
    /\ IsFiniteSet(FirmwareVersions)
    /\ {MaxNow, MaxTickets, MaxBytes, MaxUpdates} \subseteq Nat

VARIABLES
    now,
    tickets,     \* OtaUploadRegistry.reservations
    issuedIds,   \* how many upload ids were issued
    uploads,     \* the uploads whose body is being read
    images,      \* OtaUploadRegistry.images, by version
    bytes,       \* how many different images there have been
    ledger,      \* what the ledger publishes, by version
    cached,      \* DclClient.cache, by the version asked about
    update,      \* the update_node request under way
    updates,     \* how many there have been
    device,      \* the device: its version, and its download
    grants,      \* the grant in the fabric's access list: none, in memory, saved
    \* History, for the properties.
    redeemed,    \* how often each upload id was accepted, and when and by whom
    published    \* the bytes the ledger has ever vouched for

uploadVars == <<tickets, issuedIds, uploads, redeemed>>
ledgerVars == <<ledger, cached, published>>
firmwareVars == <<now, uploadVars, images, bytes, ledgerVars, update, updates, device, grants>>

Nothing == 0
NoImage == [min |-> 0, max |-> 0, bytes |-> Nothing, len |-> 0, from |-> "nobody", revoked |-> FALSE]
NoUpdate == [at |-> "idle", current |-> FirstVersion, wants |-> Nothing, version |-> Nothing,
             bytes |-> Nothing, revoked |-> {}]
NoResult == [at |-> -1, version |-> Nothing]
Unpublished == [valid |-> FALSE, min |-> 0, max |-> 0, url |-> FALSE, sha |-> FALSE,
                bytes |-> Nothing, was |-> FALSE]
NoDownload == [at |-> "idle", version |-> Nothing, got |-> <<>>, replaced |-> FALSE]
Newest(S) == CHOOSE v \in S : \A w \in S : v >= w

FirmwareInit ==
    /\ now = 0
    /\ tickets = {} /\ issuedIds = 0 /\ uploads = {} /\ redeemed = {}
    /\ images = [v \in FirmwareVersions |-> NoImage]
    /\ bytes = 0
    /\ ledger = [v \in FirmwareVersions |-> Unpublished]
    /\ cached = [v \in FirmwareVersions \cup {FirstVersion} |-> NoResult]
    /\ published = {}
    /\ update = NoUpdate /\ updates = 0
    /\ device = [runs |-> FirstVersion, download |-> NoDownload]
    /\ grants = "none"

-----------------------------------------------------------------------------
(* Reservations and uploads.                                               *)

Live(S) == {t \in S : t.until > now}

\* OtaUploadRegistry::reserve, which first drops what has expired, so that one
\* refused for want of a slot drops nothing.
Reserve(host) ==
    /\ issuedIds < MaxTickets
    /\ Cardinality(Live(tickets)) < Slots
    /\ issuedIds' = issuedIds + 1
    /\ tickets' = Live(tickets) \cup {[id |-> issuedIds + 1, host |-> host, until |-> now + UploadTtl]}
    /\ UNCHANGED <<now, uploads, redeemed, images, bytes, ledgerVars, update, updates, device,
                   grants>>

\* Mutant: the id stays until it expires.
ConsumedNever(t) == tickets

\* What redeem leaves of the reservations once it has accepted one.
Consumed(t) == tickets \ {t}

\* OtaUploadRegistry::redeem, from a connection of its own of the same host.
\* The slot is free again before the body is read.
Redeem(t) ==
    /\ t.until > now
    /\ tickets' = Consumed(t)
    /\ uploads' = uploads \cup {t.id}
    /\ redeemed' = redeemed \cup {[id |-> t.id, nth |-> Cardinality({r \in redeemed : r.id = t.id}) + 1,
                                   late |-> t.until <= now]}
    /\ UNCHANGED <<now, issuedIds, images, bytes, ledgerVars, update, updates, device, grants>>

\* One that has expired is removed.  One asked for by another host is not.
RedeemExpired(t) ==
    /\ t.until <= now
    /\ tickets' = tickets \ {t}
    /\ UNCHANGED <<now, issuedIds, uploads, redeemed, images, bytes, ledgerVars, update, updates,
                   device, grants>>

\* OtaUploadRegistry::store: in place of an image of the same version, even
\* one that a device is reading.
Stored(v, image) == images' = [images EXCEPT ![v] = image]
Reading(v) == device.download.at = "reads" /\ device.download.version = v
DeviceSees(v) ==
    device' = IF Reading(v) THEN [device EXCEPT !.download.replaced = TRUE] ELSE device

\* The body is read and its header parsed.  A connection that ends early
\* leaves a short image, if the header is there.
UploadStored(u, v, min, max, len) ==
    /\ bytes < MaxBytes /\ bytes' = bytes + 1
    /\ uploads' = uploads \ {u}
    /\ Stored(v, [min |-> min, max |-> max, bytes |-> bytes', len |-> len, from |-> "client",
                  revoked |-> FALSE])
    /\ DeviceSees(v)
    /\ UNCHANGED <<now, tickets, issuedIds, redeemed, ledgerVars, update, updates, grants>>

\* Not an OTA file, too large, or a read error.
UploadRefused(u) ==
    /\ uploads' = uploads \ {u}
    /\ UNCHANGED <<now, tickets, issuedIds, redeemed, images, bytes, ledgerVars, update, updates,
                   device, grants>>

-----------------------------------------------------------------------------
(* The ledger (external), and the client's view of it.                     *)

Publish(v, url, sha, min) ==
    /\ ~ ledger[v].was /\ bytes < MaxBytes /\ bytes' = bytes + 1
    /\ ledger' = [ledger EXCEPT ![v] = [valid |-> TRUE, min |-> min, max |-> v, url |-> url,
                                        sha |-> sha, bytes |-> bytes', was |-> TRUE]]
    /\ published' = published \cup {bytes'}
    /\ UNCHANGED <<now, uploadVars, images, cached, update, updates, device, grants>>

Revoke(v) ==
    /\ ledger[v].valid
    /\ ledger' = [ledger EXCEPT ![v].valid = FALSE]
    /\ UNCHANGED <<now, uploadVars, images, bytes, cached, published, update, updates, device,
                   grants>>

\* ModelVersion::applies_to.
AppliesTo(v, current) ==
    /\ ledger[v].valid /\ v > current
    /\ ledger[v].min <= current /\ ledger[v].max >= current
    /\ ledger[v].url

\* DclClient::fetch: the newest version that applies, whatever is newer.
FetchNewest(current) ==
    LET S == {v \in FirmwareVersions : AppliesTo(v, current)}
    IN  IF S = {} THEN Nothing ELSE Newest(S)

\* DclClient::cached.
Fresh(current) == cached[current].at >= 0 /\ now - cached[current].at < CacheTtl

\* DclClient::check_update.
CheckUpdate(current) ==
    IF Fresh(current) THEN cached[current].version ELSE FetchNewest(current)
Remembered(current) ==
    IF Fresh(current) THEN cached
    ELSE [cached EXCEPT ![current] = [at |-> now, version |-> FetchNewest(current)]]

-----------------------------------------------------------------------------
(* update_node.  A request that fails anywhere ends (UpdateFails).         *)

\* OtaUploadRegistry::best_match.
Applicable(current) ==
    {v \in FirmwareVersions : /\ images[v].bytes # Nothing /\ v > current
                              /\ images[v].min <= current /\ images[v].max >= current}
BestMatch(current) == IF Applicable(current) = {} THEN Nothing ELSE Newest(Applicable(current))

UpdateGoes(at, v) == update' = [update EXCEPT !.at = at, !.version = v]

\* The version in the stored attributes: what the device runs, or an earlier
\* one if it has not been heard since.
StoredVersions == {v \in FirmwareVersions \cup {FirstVersion} : v <= device.runs}

\* check_node_update asks the same and changes nothing but the cache.
CheckNodeUpdate(current) ==
    /\ BestMatch(current) = Nothing
    /\ cached' = Remembered(current) /\ cached' # cached
    /\ UNCHANGED <<now, uploadVars, images, bytes, ledger, published, update, updates, device,
                   grants>>

\* The version a client asks for, or any.  A local image is used if it is the
\* best match and the one asked for.  What the device runs is looked up once.
UpdateStart(wants, current) ==
    /\ update.at = "idle" /\ updates < MaxUpdates /\ updates' = updates + 1
    /\ LET best == BestMatch(current)
           local == best # Nothing /\ wants \in {Nothing, best}
       IN  update' = [at |-> IF local THEN "grant" ELSE "check", current |-> current,
                      wants |-> wants, version |-> IF local THEN best ELSE Nothing,
                      bytes |-> Nothing,
                      revoked |-> {v \in FirmwareVersions : ledger[v].was /\ ~ ledger[v].valid}]
    /\ UNCHANGED <<now, uploadVars, images, bytes, ledgerVars, device, grants>>

\* fetch_from_ledger: which version.
UpdateChecks ==
    /\ update.at = "check"
    /\ \/ /\ update.wants # Nothing
          /\ UpdateGoes("lookup", update.wants)
          /\ UNCHANGED cached
       \/ /\ update.wants = Nothing /\ CheckUpdate(update.current) # Nothing
          /\ UpdateGoes("lookup", CheckUpdate(update.current))
          /\ cached' = Remembered(update.current)
    /\ UNCHANGED <<now, uploadVars, images, bytes, ledger, published, updates, device, grants>>

\* Mutant: what the cache said is not looked up again.
ImageIsPublishedTrusting(v) == ledger[v].url /\ ledger[v].sha

\* DclClient::published_image, never from the cache: it must apply still, and
\* come with a digest that can be checked.
ImageIsPublished(v) == AppliesTo(v, update.current) /\ ledger[v].sha

UpdateLooksUp ==
    /\ update.at = "lookup" /\ ImageIsPublished(update.version)
    /\ UpdateGoes("download", update.version)
    /\ UNCHANGED <<now, uploadVars, images, bytes, ledgerVars, updates, device, grants>>

\* download_image: whole, and with the digest the ledger publishes.
DigestMatches(v, b) == b = ledger[v].bytes

\* The vendor's server answers with the image, or with other bytes.
UpdateDownloads(b) ==
    /\ update.at = "download" /\ DigestMatches(update.version, b)
    /\ update' = [update EXCEPT !.at = "store", !.bytes = b]
    /\ UNCHANGED <<now, uploadVars, images, bytes, ledgerVars, updates, device, grants>>

\* The header is compared with the version and the image stored.
UpdateStores ==
    /\ update.at = "store"
    /\ Stored(update.version, [min |-> ledger[update.version].min,
                               max |-> ledger[update.version].max,
                               bytes |-> update.bytes, len |-> Blocks, from |-> "ledger",
                               revoked |-> update.version \in update.revoked])
    /\ DeviceSees(update.version)
    /\ UpdateGoes("grant", update.version)
    /\ UNCHANGED <<now, uploadVars, bytes, ledgerVars, updates, grants>>

\* grant_ota_access, which saves the fabric only when the grant is new: one
\* that could not be saved is not saved by the next request either.
UpdateGrants ==
    /\ update.at = "grant"
    /\ grants' = IF grants = "none" THEN "saved" ELSE grants
    /\ UpdateGoes("announce", update.version)
    /\ UNCHANGED <<now, uploadVars, images, bytes, ledgerVars, updates, device>>

UpdateGrantUnsaved ==
    /\ update.at = "grant" /\ grants = "none"
    /\ grants' = "memory" /\ update' = NoUpdate
    /\ UNCHANGED <<now, uploadVars, images, bytes, ledgerVars, updates, device>>

\* AnnounceOTAProvider: the device asks on its own schedule.
UpdateAnnounces ==
    /\ update.at = "announce" /\ update' = NoUpdate
    /\ device' = IF device.download.at = "idle"
                 THEN [device EXCEPT !.download.at = "told"] ELSE device
    /\ UNCHANGED <<now, uploadVars, images, bytes, ledgerVars, updates, grants>>

UpdateFails ==
    /\ update.at # "idle" /\ update' = NoUpdate
    /\ UNCHANGED <<now, uploadVars, images, bytes, ledgerVars, updates, device, grants>>

-----------------------------------------------------------------------------
(* The provider, and the device that asks it.                              *)

\* ImageStore::query: the best match, named by its version.
DeviceQueries ==
    /\ device.download.at = "told" /\ grants # "none"
    /\ LET best == BestMatch(device.runs)
       IN  device' = [device EXCEPT !.download =
                        IF best = Nothing THEN NoDownload
                        ELSE [at |-> "reads", version |-> best, got |-> <<>>, replaced |-> FALSE]]
    /\ UNCHANGED <<now, uploadVars, images, bytes, ledgerVars, update, updates, grants>>

\* Mutant: a block is read of whatever would be offered now.
NamedNewest(v) == BestMatch(device.runs)

\* parse_designator: the name says which image it is.
Named(v) == v

\* ImageStore::read, a block at a time; nothing is read past the end.
DeviceReads ==
    /\ device.download.at = "reads"
    /\ LET image == images[Named(device.download.version)]
       IN  IF Len(device.download.got) < image.len
           THEN device' = [device EXCEPT !.download.got = Append(@, image.bytes)]
           ELSE device' = [device EXCEPT !.download.at = "done"]
    /\ UNCHANGED <<now, uploadVars, images, bytes, ledgerVars, update, updates, grants>>

\* The device keeps what it can verify, and starts anew.
DeviceApplies ==
    /\ device.download.at = "done"
    /\ device' = [runs |-> IF Len(device.download.got) = Blocks /\ ~ device.download.replaced
                           THEN device.download.version ELSE device.runs,
                  download |-> NoDownload]
    /\ UNCHANGED <<now, uploadVars, images, bytes, ledgerVars, update, updates, grants>>

\* The store is in memory, the reservations too.
FirmwareRestart ==
    /\ images # [v \in FirmwareVersions |-> NoImage]
    /\ tickets' = {} /\ uploads' = {}
    /\ images' = [v \in FirmwareVersions |-> NoImage]
    /\ cached' = [v \in DOMAIN cached |-> NoResult]
    /\ update' = NoUpdate
    /\ grants' = IF grants = "saved" THEN "saved" ELSE "none"
    /\ device' = [device EXCEPT !.download = NoDownload]
    /\ UNCHANGED <<now, issuedIds, redeemed, bytes, ledger, published, updates>>

FirmwareTick ==
    /\ now < MaxNow /\ now' = now + 1
    /\ UNCHANGED <<uploadVars, images, bytes, ledgerVars, update, updates, device, grants>>

FirmwareNext ==
    \/ \E host \in Hosts : Reserve(host)
    \/ \E t \in tickets : Redeem(t) \/ RedeemExpired(t)
    \/ \E u \in uploads :
          \/ UploadRefused(u)
          \/ \E v \in FirmwareVersions, len \in {Blocks, Blocks - 1} :
                UploadStored(u, v, 0, v, len)
    \/ \E v \in FirmwareVersions :
          \/ \E kind \in {"applies", "no url", "no digest", "not yet"} :
                Publish(v, kind # "no url", kind # "no digest",
                        IF kind = "not yet" THEN FirstVersion + 1 ELSE 0)
          \/ Revoke(v)
    \/ \E current \in StoredVersions :
          \/ CheckNodeUpdate(current)
          \/ \E wants \in FirmwareVersions \cup {Nothing} : UpdateStart(wants, current)
    \/ UpdateChecks \/ UpdateLooksUp
    \/ \E b \in 1 .. bytes : UpdateDownloads(b)
    \/ UpdateStores \/ UpdateGrants \/ UpdateGrantUnsaved \/ UpdateAnnounces \/ UpdateFails
    \/ DeviceQueries \/ DeviceReads \/ DeviceApplies
    \/ FirmwareRestart \/ FirmwareTick

FirmwareSpec == FirmwareInit /\ [][FirmwareNext]_firmwareVars

-----------------------------------------------------------------------------
(* Properties.                                                             *)

\* An upload id is accepted once and only while it is valid, however its
\* expiry, other reservations and the upload under way interleave.
TicketsAreSingleUse ==
    \A r \in redeemed : r.nth = 1 /\ ~ r.late

\* What the store holds from the ledger is what the ledger published, and was
\* not revoked before the request that fetched it began, though the version
\* may have come from a cache (matter/dcl.rs:377).
LedgerVouchesForImages ==
    \A v \in FirmwareVersions :
        images[v].from = "ledger" =>
            /\ images[v].bytes = ledger[v].bytes /\ images[v].bytes \in published
            /\ ~ images[v].revoked

\* A download is of one image, from the first block to the last, even if newer
\* versions arrive meanwhile: only an upload of the same version can tear it.
DownloadsAreWhole ==
    ~ device.download.replaced =>
        \A i, j \in 1 .. Len(device.download.got) :
            device.download.got[i] = device.download.got[j]

\* From the upload or the ledger to the last block, a device is served an image
\* that somebody vouches for, and that one only (api/ota.rs:310).
ImagesAreGenuine == TicketsAreSingleUse /\ LedgerVouchesForImages /\ DownloadsAreWhole
=============================================================================
