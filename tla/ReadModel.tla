----------------------------- MODULE ReadModel -----------------------------
(***************************************************************************)
(* The read-model of one product of a store, and who creates or refreshes  *)
(* it: the sync and the re-sync of services/api/src/services/sites.ts, the *)
(* plugin's ingest (services/plugin/ingest.ts), the product routes of      *)
(* http/routes/merchant.ts that end in a re-sync and WooCommerce's         *)
(* webhooks (http/routes/webhooks.ts). Two routes are left out: PATCH      *)
(* .../stock, which copies two columns of the store's answer to the row,   *)
(* and DELETE .../products/:id, which drops the row and with it its        *)
(* children, also under a full write that then fails on the missing row,   *)
(* or before one that inserts the product again from an earlier fetch.     *)
(*                                                                         *)
(* A product is its version: the store counts its edits, and a version     *)
(* determines categories, images and variations. Version 0 is no product.  *)
(* The category links stand for the tag and brand links too, which are     *)
(* replaced in the same way, and the images for the product's attributes.  *)
(* The row of an order, a customer or a coupon is written by one statement *)
(* as a webhook writes a product's. The run's progress is SiteConnection's *)
(* subject and the plugin's side of an ingest PluginSync's.                *)
(***************************************************************************)
EXTENDS Handlers

CONSTANTS
  Deliveries,   \* delivery ids of the store's webhooks
  NoDelivery,   \* the absence of one
  Categories, Images, Variations,
  CategoriesOf, ImagesOf, VariationsOf,   \* of a version
  MaxVersion,   \* bound on edits in the store
  MaxWork       \* bound on pulls, deliveries, failures and crashes, together

Versions == 0 .. MaxVersion

ASSUME VersionsAssumption ==
  /\ MaxVersion \in Nat
  /\ CategoriesOf \in [Versions -> SUBSET Categories]
  /\ ImagesOf \in [Versions -> SUBSET Images]
  /\ VariationsOf \in [Versions -> SUBSET Variations]
  /\ CategoriesOf[0] = {} /\ ImagesOf[0] = {} /\ VariationsOf[0] = {}
ASSUME DeliveriesAssumption == NoDelivery \notin Deliveries
ASSUME WorkAssumption == MaxWork \in Nat

VARIABLES
  store,     \* the version of the store's product
  sent,      \* per delivery: the version it tells of, 0 before it is sent
  known,     \* categories that have a row in synced_category
  row,       \* synced_product: the version of the columns every writer sets,
             \* and of those (type, permalink, meta, raw) a webhook does not
  links,     \* synced_product_category, unique per category
  images,    \* synced_product_image: rows per image
  variants,  \* synced_product_variant: per variation the version, 0 for no row
  event,     \* webhook_event.status per delivery
  proc,      \* per request or background sync: where it stands, and what it holds
  applied,   \* history: per delivery, how often it was applied
  skipped,   \* history: deliveries that found no credentials
  crossed,   \* history: the last write of the row used a copy fetched before
             \* another write of it
  torn,      \* history: the last replacement of the children failed, overlapped
             \* another or met an unknown category
  pulled,    \* history: version of the variations of the last full write
  work       \* pulls, deliveries, failures and crashes so far

tables == <<known, row, links, images, variants, event>>
history == <<applied, skipped, crossed, torn, pulled>>
readVars == <<store, sent, tables, proc, history, work>>

Writing == {"unlink", "link", "image", "variant"}
Steps == {"idle", "taxonomy", "fetch", "variations", "row",
          "record", "ignore", "mark", "fail"}
           \cup Writing
Process == [at : Steps, kind : {"pull", "webhook"},
            item : Versions, vars : Versions,
            left : SUBSET (Categories \cup Images \cup Variations),
            delivery : Deliveries \cup {NoDelivery},
            verified : BOOLEAN,
            stale : BOOLEAN,    \* the row was written since the product was fetched
            clean : BOOLEAN]    \* nothing disturbed the replacement so far
ReadIdle == [at |-> "idle", kind |-> "pull", item |-> 0, vars |-> 0, left |-> {},
         delivery |-> NoDelivery, verified |-> FALSE, stale |-> FALSE, clean |-> TRUE]

ReadTypeOK ==
  /\ store \in Versions
  /\ sent \in [Deliveries -> Versions]
  /\ known \in SUBSET Categories
  /\ row \in [core : Versions, deep : Versions]
  /\ links \in SUBSET Categories
  /\ images \in [Images -> Nat]
  /\ variants \in [Variations -> Versions]
  /\ event \in [Deliveries -> {"none", "received", "ignored", "processed", "failed"}]
  /\ proc \in [Requests -> Process]
  /\ applied \in [Deliveries -> Nat]
  /\ skipped \in SUBSET Deliveries
  /\ crossed \in BOOLEAN
  /\ torn \in BOOLEAN
  /\ pulled \in Versions
  /\ work \in 0 .. MaxWork

ReadInit ==
  /\ store = 0
  /\ sent = [d \in Deliveries |-> 0]
  /\ known = {}
  /\ row = [core |-> 0, deep |-> 0]
  /\ links = {}
  /\ images = [i \in Images |-> 0]
  /\ variants = [x \in Variations |-> 0]
  /\ event = [d \in Deliveries |-> "none"]
  /\ proc = [p \in Requests |-> ReadIdle]
  /\ applied = [d \in Deliveries |-> 0]
  /\ skipped = {}
  /\ crossed = FALSE
  /\ torn = FALSE
  /\ pulled = 0
  /\ work = 0

-----------------------------------------------------------------------------
(* The store.                                                              *)

\* An edit creates the product or changes it, and sends a webhook if the
\* store has one configured.
Edit ==
  /\ store < MaxVersion
  /\ store' = store + 1
  /\ \/ UNCHANGED sent
     \/ \E d \in Deliveries : /\ sent[d] = 0
                              /\ sent' = [sent EXCEPT ![d] = store + 1]
  /\ UNCHANGED <<tables, proc, history, work>>

-----------------------------------------------------------------------------
(* Helpers.                                                                *)

Goto(p, step) == proc' = [proc EXCEPT ![p].at = step]
End(p) == proc' = [proc EXCEPT ![p] = ReadIdle]

Start(p) ==
  /\ proc[p].at = "idle"
  /\ work < MaxWork
  /\ work' = work + 1

\* A process that has fetched the product and not written its row yet.
Holds(q) == proc[q].at = "row" \/ (proc[q].at = "variations" /\ proc[q].item # 0)

\* p writes its row: every other copy is stale from now on, and replacements
\* of children that overlap are not clean.
RowWritten(p, next) ==
  proc' = [q \in Requests |->
    IF q = p
    THEN [proc[p] EXCEPT
            !.at = next,
            !.stale = FALSE,
            !.clean = next = "mark" \/ \A o \in Requests : proc[o].at \notin Writing]
    ELSE [proc[q] EXCEPT
            !.stale = @ \/ Holds(q),
            !.clean = @ /\ (next = "mark" \/ proc[q].at \notin Writing)]]

-----------------------------------------------------------------------------
(* Pulls: syncWooSite, resyncProduct, ingestSyncEnvelope.                  *)

BeginSync(p) ==
  /\ Start(p)
  /\ proc' = [proc EXCEPT ![p] = [ReadIdle EXCEPT !.at = "taxonomy"]]
  /\ UNCHANGED <<store, sent, tables, history>>

\* The sync upserts the categories before the products: those the store lists
\* by then.
Taxonomy(p) ==
  /\ proc[p].at = "taxonomy"
  /\ \E listed \in SUBSET Categories : known' = known \cup listed
  /\ Goto(p, "fetch")
  /\ UNCHANGED <<store, sent, row, links, images, variants, event, history, work>>

\* A product route writes to the store, then calls resyncProduct.
WriteProduct(p) ==
  /\ Start(p)
  /\ store < MaxVersion
  /\ store' = store + 1
  /\ proc' = [proc EXCEPT ![p] = [ReadIdle EXCEPT !.at = "fetch"]]
  /\ UNCHANGED <<sent, tables, history>>

\* The plugin's envelope brings the product with its variations.
BeginIngest(p) ==
  /\ Start(p)
  /\ store # 0
  /\ proc' = [proc EXCEPT ![p] = [ReadIdle EXCEPT !.at = "row",
                                              !.item = store, !.vars = store]]
  /\ UNCHANGED <<store, sent, tables, history>>

\* listProducts, getProduct: a product that is not there, or in the trash, is
\* not seen by a sync, and a re-sync fails on it.
Fetch(p) ==
  /\ proc[p].at = "fetch"
  /\ proc[p].kind = "pull"
  /\ \/ store # 0 /\ proc' = [proc EXCEPT ![p].at = "variations", ![p].item = store]
     \/ End(p)
  /\ UNCHANGED <<store, sent, tables, history, work>>

\* fetchAllVariations, which fails for a product deleted since.
FetchVariations(p) ==
  /\ proc[p].at = "variations"
  /\ \/ proc' = [proc EXCEPT ![p].at = "row", ![p].vars = store]
     \/ End(p)
  /\ UNCHANGED <<store, sent, tables, history, work>>

\* upsertProductFull: INSERT ... ON CONFLICT DO UPDATE, and then, statement by
\* statement and in no transaction, its children.
WriteRow(p) ==
  /\ proc[p].at = "row"
  /\ proc[p].kind = "pull"
  /\ row' = [core |-> proc[p].item, deep |-> proc[p].item]
  /\ crossed' = proc[p].stale
  /\ RowWritten(p, "unlink")
  /\ UNCHANGED <<store, sent, known, links, images, variants, event, applied, skipped, torn,
                 pulled, work>>

DeleteLinks(p) ==
  /\ proc[p].at = "unlink"
  /\ links' = {}
  /\ proc' = [proc EXCEPT ![p].at = "link", ![p].left = CategoriesOf[proc[p].item]]
  /\ UNCHANGED <<store, sent, known, row, images, variants, event, history, work>>

\* INSERT ... SELECT: a category without a row is not linked.
InsertLink(p) ==
  /\ proc[p].at = "link"
  /\ \E c \in proc[p].left :
       /\ links' = links \cup ({c} \cap known)
       /\ proc' = [proc EXCEPT ![p].left = @ \ {c}, ![p].clean = @ /\ c \in known]
  /\ UNCHANGED <<store, sent, known, row, images, variants, event, history, work>>

\* Mutant: the old images stay.
DeleteNoImages(p) ==
  /\ proc[p].at = "link"
  /\ proc[p].left = {}
  /\ proc' = [proc EXCEPT ![p].at = "image", ![p].left = ImagesOf[proc[p].item], ![p].item = 0]
  /\ UNCHANGED <<store, sent, tables, history, work>>

DeleteImages(p) ==
  /\ proc[p].at = "link"
  /\ proc[p].left = {}
  /\ images' = [i \in Images |-> 0]
  /\ proc' = [proc EXCEPT ![p].at = "image", ![p].left = ImagesOf[proc[p].item], ![p].item = 0]
  /\ UNCHANGED <<store, sent, known, row, links, variants, event, history, work>>

InsertImage(p) ==
  /\ proc[p].at = "image"
  /\ \E i \in proc[p].left :
       /\ images' = [images EXCEPT ![i] = @ + 1]
       /\ proc' = [proc EXCEPT ![p].left = @ \ {i}]
  /\ UNCHANGED <<store, sent, known, row, links, variants, event, history, work>>

ImagesDone(p) ==
  /\ proc[p].at = "image"
  /\ proc[p].left = {}
  /\ proc' = [proc EXCEPT ![p].at = "variant", ![p].left = VariationsOf[proc[p].vars]]
  /\ UNCHANGED <<store, sent, tables, history, work>>

\* INSERT ... ON CONFLICT DO UPDATE; no variation is ever deleted.
UpsertVariation(p) ==
  /\ proc[p].at = "variant"
  /\ \E x \in proc[p].left :
       /\ variants' = [variants EXCEPT ![x] = proc[p].vars]
       /\ proc' = [proc EXCEPT ![p].left = @ \ {x}]
  /\ UNCHANGED <<store, sent, known, row, links, images, event, history, work>>

PullDone(p) ==
  /\ proc[p].at = "variant"
  /\ proc[p].left = {}
  /\ torn' = ~proc[p].clean
  /\ pulled' = proc[p].vars
  /\ End(p)
  /\ UNCHANGED <<store, sent, tables, applied, skipped, crossed, work>>

-----------------------------------------------------------------------------
(* POST /webhooks/woocommerce/:siteId.                                     *)

\* A delivery arrives, perhaps once more; its signature cannot be verified
\* while no secret is stored.
BeginWebhook(p, d, verified) ==
  /\ Start(p)
  /\ sent[d] # 0
  /\ proc' = [proc EXCEPT ![p] = [ReadIdle EXCEPT !.at = "record", !.kind = "webhook",
                                              !.delivery = d, !.verified = verified]]
  /\ UNCHANGED <<store, sent, tables, history>>

\* recordEvent: INSERT ... ON CONFLICT DO NOTHING; an event received before is
\* answered, whatever became of it.
RecordEvent(p) ==
  /\ proc[p].at = "record"
  /\ LET d == proc[p].delivery
     IN IF event[d] = "none"
        THEN /\ event' = [event EXCEPT ![d] = "received"]
             /\ Goto(p, IF proc[p].verified THEN "fetch" ELSE "ignore")
        ELSE End(p) /\ UNCHANGED event
  /\ UNCHANGED <<store, sent, known, row, links, images, variants, history, work>>

\* Mutant: the product is taken from the delivery.
WebhookTrusts(p) ==
  /\ proc[p].at = "fetch"
  /\ proc[p].kind = "webhook"
  /\ proc' = [proc EXCEPT ![p].at = "row", ![p].item = sent[proc[p].delivery]]
  /\ UNCHANGED <<store, sent, tables, history, work>>

\* applyWooWebhook returns without credentials, fetches the product as it is
\* by now, and fails when it is gone.
WebhookFetch(p) ==
  /\ proc[p].at = "fetch"
  /\ proc[p].kind = "webhook"
  /\ \/ /\ Goto(p, "mark")
        /\ skipped' = skipped \cup {proc[p].delivery}
     \/ /\ \/ proc' = [proc EXCEPT ![p].at = "row", ![p].item = store]
           \/ Goto(p, "fail")
        /\ UNCHANGED skipped
  /\ UNCHANGED <<store, sent, tables, applied, crossed, torn, pulled, work>>

\* Its upsert leaves the columns only a full write knows.
WebhookRow(p) ==
  /\ proc[p].at = "row"
  /\ proc[p].kind = "webhook"
  /\ row' = [row EXCEPT !.core = proc[p].item]
  /\ applied' = [applied EXCEPT ![proc[p].delivery] = @ + 1]
  /\ crossed' = proc[p].stale
  /\ RowWritten(p, "mark")
  /\ UNCHANGED <<store, sent, known, links, images, variants, event, skipped, torn, pulled,
                 work>>

\* The last statement of a delivery: ignored, processed or, in the catch, failed.
MarkEvent(p) ==
  /\ proc[p].at \in {"ignore", "mark", "fail"}
  /\ event' = [event EXCEPT ![proc[p].delivery] =
                 CASE proc[p].at = "ignore" -> "ignored"
                   [] proc[p].at = "mark" -> "processed"
                   [] OTHER -> "failed"]
  /\ End(p)
  /\ UNCHANGED <<store, sent, known, row, links, images, variants, history, work>>

-----------------------------------------------------------------------------
(* Faults.                                                                 *)

\* A call or a statement fails: the sync's run, the caller of resyncProduct
\* and the ingest end. In a webhook's try, which holds the UPDATE to processed
\* too, its event is marked failed; outside it the request ends, and an event
\* that is recorded stays received.
Fails(p) ==
  /\ proc[p].at # "idle"
  /\ work < MaxWork
  /\ work' = work + 1
  /\ torn' = (torn \/ proc[p].at \in Writing)
  /\ IF proc[p].kind = "webhook" /\ proc[p].at \in {"fetch", "row", "mark"}
     THEN Goto(p, "fail") ELSE End(p)
  /\ UNCHANGED <<store, sent, tables, applied, skipped, crossed, pulled>>

Crash ==
  /\ \E p \in Requests : proc[p].at # "idle"
  /\ work < MaxWork
  /\ work' = work + 1
  /\ proc' = [p \in Requests |-> ReadIdle]
  /\ torn' = (torn \/ \E p \in Requests : proc[p].at \in Writing)
  /\ UNCHANGED <<store, sent, tables, applied, skipped, crossed, pulled>>

-----------------------------------------------------------------------------
(* Specification.                                                          *)

Pull(p) ==
  \/ BeginSync(p) \/ Taxonomy(p) \/ WriteProduct(p) \/ BeginIngest(p)
  \/ Fetch(p) \/ FetchVariations(p) \/ WriteRow(p)
  \/ DeleteLinks(p) \/ InsertLink(p) \/ DeleteImages(p) \/ InsertImage(p) \/ ImagesDone(p)
  \/ UpsertVariation(p) \/ PullDone(p)
Webhook(p) ==
  \/ \E d \in Deliveries, verified \in BOOLEAN : BeginWebhook(p, d, verified)
  \/ RecordEvent(p) \/ WebhookFetch(p) \/ WebhookRow(p) \/ MarkEvent(p)

ReadNext ==
  \/ \E p \in Requests : Pull(p) \/ Webhook(p) \/ Fails(p)
  \/ Edit
  \/ Crash

ReadSpec == ReadInit /\ [][ReadNext]_readVars

-----------------------------------------------------------------------------
(* Properties.                                                             *)

\* "Replaced (delete-then-insert), so repeated syncs never duplicate"
\* (sites.ts): between full writes, the children are those of the version the
\* row was last written from, each image once, and that version's variations
\* have rows, if the last full write ran alone and to its end. What overlapping
\* or failed ones left behind is repaired by one that does.
ChildrenMatch ==
  ~torn /\ (\A p \in Requests : proc[p].at \notin Writing) =>
    /\ links = CategoriesOf[row.deep]
    /\ \A i \in Images : images[i] = IF i \in ImagesOf[row.deep] THEN 1 ELSE 0
    /\ \A x \in VariationsOf[pulled] : variants[x] = pulled

\* Once a webhook is processed the row is no older than what the webhook told
\* of, in whatever order deliveries arrive, unless no credentials were stored,
\* or the last writer of the row had fetched before another wrote; and however
\* they are repeated and overlap, a delivery is "never applied twice"
\* (webhooks.ts).
ProcessedIsApplied ==
  \A d \in Deliveries :
    /\ applied[d] <= 1
    /\ event[d] = "processed" /\ d \notin skipped /\ ~crossed => row.core >= sent[d]
=============================================================================
