--------------------------- MODULE OfferAdapters ---------------------------
(***************************************************************************)
(* The offer adapters behind the HTTP spider: one response is turned into  *)
(* an outcome for the target it was fetched for, and for the targets that  *)
(* share the fetch because they share its URL.  A Shopify product document *)
(* must name one variant; a catalogue answer one exact item; a repair      *)
(* search one exact URL; a page must still be about the product asked for. *)
(* Identifiers are the two legacy columns of the match (an untyped value   *)
(* and a SKU): the spider passes the adapters nothing else, so no          *)
(* identifier is verified and no evidence of absence is handed over.       *)
(***************************************************************************)
EXTENDS Integers, Sequences, FiniteSets, SequencesExt

CONSTANTS Values,        \* identifier values
          Handle,        \* the handle in the product URL
          Targets, Dedups, Responses, Keys,
          MaxFetches

VARIABLES ident, sku, dedup, result, seen, fetches

vars == <<ident, sku, dedup, result, seen, fetches>>

Nil == "-"
NoSeen == [key |-> "NONE", owner |-> "none", resp |-> [kind |-> "none"]]
Fields == <<"id", "sku", "barcode">>
Pending == [outcome |-> "PENDING", of |-> Nil, review |-> FALSE]
Made(o, v, r) == [outcome |-> o, of |-> v, review |-> r]
_same(a, b) == a # Nil /\ b # Nil /\ a = b

(***************************************************************************)
(* Shopify: variant_resolution.py and shopify.py                           *)
(***************************************************************************)
\* SKU before the untyped value, as _RESOLUTION_ORDER ranks them.
identifiers_from_legacy_context(t) ==
  (IF sku[t] = Nil THEN <<>> ELSE <<[type |-> "SKU", value |-> sku[t]]>>)
    \o (IF ident[t] = Nil THEN <<>> ELSE <<[type |-> "UNKNOWN", value |-> ident[t]]>>)

FieldHits(f, value, vs) == {v \in vs : _same(v[f], value)}

\* Mutant: an untyped value is taken for a variant id.
_matches_for_IdOnly(i, vs) == FieldHits(IF i.type = "SKU" THEN "sku" ELSE "id", i.value, vs)

\* The declared field, then the others; the first field that hits decides.
_matches_for(i, vs) ==
  LET order == IF i.type = "SKU" THEN <<"sku", "id", "barcode">> ELSE Fields
      hit == {k \in DOMAIN order : FieldHits(order[k], i.value, vs) # {}}
  IN  IF hit = {} THEN {} ELSE FieldHits(order[CHOOSE k \in hit : \A j \in hit : k <= j], i.value, vs)

\* Mutant: with nothing to go by, the first variant is as good as any.
_default_variant_Any(vs) == TRUE

_default_variant(vs) == Cardinality(vs) = 1

\* One identifier that selects one variant resolves it; a shared value or several unnamed
\* variants are quarantined; a sole variant is the product.
resolve_shopify_variant(doc, ids) ==
  LET confirms == {i \in DOMAIN ids : _same(doc.handle, ids[i].value)}
      skip == IF confirms = {} THEN 0 ELSE CHOOSE i \in confirms : \A j \in confirms : i <= j
      vote == {i \in DOMAIN ids \ {skip} : Cardinality(_matches_for(ids[i], doc.variants)) = 1}
      tied == {i \in DOMAIN ids \ {skip} : Cardinality(_matches_for(ids[i], doc.variants)) > 1}
      first == CHOOSE i \in vote : \A j \in vote : i <= j
  IN  IF vote # {} THEN [kind |-> "Resolved", of |-> CHOOSE v \in _matches_for(ids[first], doc.variants) : TRUE]
      ELSE IF tied = {} /\ _default_variant(doc.variants)
      THEN [kind |-> "Resolved", of |-> CHOOSE v \in doc.variants : TRUE]
      ELSE [kind |-> "Ambiguous"]

\* Mutant: what cannot be resolved is reported delisted.
outcome_for_resolution_Delisted(kind) == IF kind = "Resolved" THEN "FOUND" ELSE "NOT_LISTED"

outcome_for_resolution(kind) == IF kind = "Resolved" THEN "FOUND" ELSE "IDENTITY_UNRESOLVED"

ShopifyProductJsonAdapter(resp, ids) ==
  IF resp.kind # "product" THEN Made("INVALID_RESPONSE", Nil, FALSE)
  ELSE IF resp.handle # Handle THEN Made("IDENTITY_MISMATCH", Nil, FALSE)
  ELSE IF resp.variants = {} THEN Made("NOT_FOUND", Nil, FALSE)
  ELSE LET r == resolve_shopify_variant(resp, ids)
       IN  IF r.kind = "Resolved"
           THEN IF r.of.priced THEN Made(outcome_for_resolution(r.kind), r.of.id, FALSE)
                ELSE Made("NOT_FOUND", Nil, FALSE)
           ELSE Made(outcome_for_resolution(r.kind), Nil, TRUE)

\* The offline classifier: which type an untyped value proves to have against a document.
classify_identifier(value, doc) ==
  LET types == {f \in Range(Fields) : FieldHits(f, value, doc.variants) # {}}
                 \cup (IF _same(doc.handle, value) THEN {"handle"} ELSE {})
  IN  IF Cardinality(types) # 1 THEN "UNKNOWN" ELSE CHOOSE f \in types : TRUE

(***************************************************************************)
(* Catalogue, repair and page adapters                                     *)
(***************************************************************************)
resolve_identifier(t) == IF ident[t] # Nil THEN ident[t] ELSE sku[t]

\* Mutant: the first item of the answer is taken.
find_exact_item_First(items, value) == {i \in DOMAIN items : i = 1}

\* The items that carry the identifier under some configured path.
find_exact_item(items, value) == {i \in DOMAIN items : value \in {items[i].id, items[i].sku}}

PublicCatalogJsonAdapter(resp, value) ==
  LET found == find_exact_item(resp.items, value)
      item == resp.items[CHOOSE i \in found : \A j \in found : i <= j]
  IN  IF resp.kind # "items" THEN Made("INVALID_RESPONSE", Nil, FALSE)
      ELSE IF found = {} THEN Made("NOT_LISTED", Nil, FALSE)
      ELSE IF item.priced THEN Made("FOUND", item.id, FALSE) ELSE Made("NOT_FOUND", Nil, FALSE)

Requested == [host |-> "own", root |-> FALSE, id |-> Handle]

\* Mutant: the identifiers of the two URLs are not compared.
validate_final_url_HostOnly(expected, final, ruled) ==
  IF final.host # "own" THEN "MISMATCH" ELSE IF final.root THEN "NOT_LISTED" ELSE "VALID"

\* The final URL stays on the host, is not the storefront's root, and names the product that is
\* expected; an identifier is read off a URL only where the site has patterns for it (ruled).
\* require_url_identifier is left at its default: an identifier is required where it can be read.
validate_final_url(expected, final, ruled) ==
  LET observed == IF ruled THEN final.id ELSE Nil
  IN  CASE final.host # "own" -> "MISMATCH"
        [] final.host = "own" /\ final.root -> "NOT_LISTED"
        [] final.host = "own" /\ ~final.root /\ expected # Nil ->
             IF observed = expected THEN "VALID" ELSE "MISMATCH"
        [] OTHER -> IF final = Requested THEN "VALID" ELSE "UNVERIFIED"

\* A body that does not parse, and a search that finds nothing, are one to the repair adapter.
ExactIdUrlRepairAdapter(resp, value) ==
  LET found == find_exact_item(resp.items, value)
      item == resp.items[CHOOSE i \in found : \A j \in found : i <= j]
  IN  IF resp.kind # "items" THEN Made("NOT_LISTED", Nil, FALSE)
      ELSE IF found = {} THEN Made("NOT_LISTED", Nil, FALSE)
      ELSE IF validate_final_url(value, item.url, resp.ruled) = "VALID" THEN Made("REPAIRED", item.id, FALSE)
      ELSE Made("IDENTITY_MISMATCH", Nil, FALSE)

\* The spider hands no identifier over: what is expected is what the patterns read off the URL
\* asked for.
HtmlPipelineAdapter(resp) ==
  LET expected == IF resp.kind = "page" /\ resp.ruled THEN Handle ELSE Nil
      status == IF resp.kind = "page" THEN validate_final_url(expected, resp.url, resp.ruled) ELSE "UNVERIFIED"
  IN  IF status = "NOT_LISTED" THEN Made("NOT_LISTED", Nil, FALSE)
      ELSE IF status = "MISMATCH" THEN Made("IDENTITY_MISMATCH", Nil, FALSE)
      ELSE IF resp.kind = "page" /\ resp.priced THEN Made("FOUND", resp.url.id, FALSE)
      ELSE Made("NOT_FOUND", Nil, FALSE)

adapt(key, resp, t) ==
  CASE key = "SHOPIFY_PRODUCT_JSON" -> ShopifyProductJsonAdapter(resp, identifiers_from_legacy_context(t))
    [] key = "PUBLIC_CATALOG_JSON" -> PublicCatalogJsonAdapter(resp, resolve_identifier(t))
    [] key = "EXACT_ID_URL_REPAIR" -> ExactIdUrlRepairAdapter(resp, resolve_identifier(t))
    [] key = "DEFAULT_HTTP" -> HtmlPipelineAdapter(resp)

\* The catalogue and repair adapters refuse to build a request without an identifier.
build_request(key, t) ==
  key \in {"PUBLIC_CATALOG_JSON", "EXACT_ID_URL_REPAIR"} => resolve_identifier(t) # Nil

(***************************************************************************)
(* The spider                                                              *)
(***************************************************************************)
\* All targets here have one URL, profile and policy: the key has nothing else in it.
_dedup_group_key(t) == IF dedup THEN Targets ELSE {t}

Init ==
  /\ ident \in [Targets -> Values \cup {Nil, Handle}]
  /\ sku \in [Targets -> Values \cup {Nil}]
  /\ dedup \in Dedups
  /\ result = [t \in Targets |-> Pending]
  /\ seen = NoSeen
  /\ fetches = 0

\* An error status never reaches an adapter, but for a 404 of the repair search.
classify_http_status(key, resp) ==
  resp.kind = "error" \/ (resp.kind = "404" /\ key # "EXACT_ID_URL_REPAIR")

\* The fetcher's outcome is cloned onto its siblings.
_results_with_siblings(t, r) ==
  [s \in Targets |-> IF s \in _dedup_group_key(t) THEN r ELSE result[s]]

parse(t) ==
  \E key \in Keys, resp \in Responses :
    /\ fetches < MaxFetches
    /\ build_request(key, t)
    /\ result' = _results_with_siblings(t,
                   IF classify_http_status(key, resp) THEN Made("HTTP_ERROR", Nil, FALSE)
                   ELSE adapt(key, resp, t))
    /\ seen' = [key |-> key, owner |-> t, resp |-> resp]
    /\ fetches' = fetches + 1
    /\ UNCHANGED <<ident, sku, dedup>>

Next == \E t \in Targets : parse(t)

Spec == Init /\ [][Next]_vars

-----------------------------------------------------------------------------
Owner == seen.owner
Shopify == seen.key = "SHOPIFY_PRODUCT_JSON"

\* No Shopify answer of any shape, and no catalogue answer that holds the item, makes the match
\* delisted: an unresolved identity is a failure that goes to review.
NoFalseDelisting ==
  seen.key # "NONE" =>
    (result[Owner].outcome = "NOT_LISTED" =>
       /\ ~Shopify
       /\ seen.resp.kind = "items" =>
            \A i \in DOMAIN seen.resp.items : resolve_identifier(Owner) \notin {seen.resp.items[i].id, seen.resp.items[i].sku})

\* Of several variants none is picked that the fetcher's own identifiers do not name.
ResolvedIsNamed ==
  (Shopify /\ result[Owner].outcome = "FOUND" /\ Cardinality(seen.resp.variants) > 1) =>
    \E v \in seen.resp.variants :
      /\ v.id = result[Owner].of
      /\ \E x \in {ident[Owner], sku[Owner]} \ {Nil} : x \in {v.id, v.sku, v.barcode}

\* The live resolver and the offline classifier read a document alike: where the classifier
\* proves what an untyped value is, the resolver takes the variant that has it there.
ClassifierAgrees ==
  (Shopify /\ seen.resp.kind = "product" /\ sku[Owner] = Nil /\ ident[Owner] # Nil) =>
    LET type == classify_identifier(ident[Owner], seen.resp)
        vs == {v \in seen.resp.variants : type \in Range(Fields) /\ v[type] = ident[Owner]}
    IN  (Cardinality(vs) = 1 /\ seen.resp.handle = Handle) =>
          \A v \in vs : v.priced => result[Owner].of = v.id

\* A price is taken, and a URL repaired, only from something that carries the identifier asked
\* for; of a page, where the site has patterns, from the URL of that very product.  A URL is
\* repaired only where there are patterns to verify it.
ExactOnly ==
  seen.key # "NONE" =>
    /\ (seen.key \in {"PUBLIC_CATALOG_JSON", "EXACT_ID_URL_REPAIR"} /\ result[Owner].outcome \in {"FOUND", "REPAIRED"}) =>
         \E i \in DOMAIN seen.resp.items :
           /\ seen.resp.items[i].id = result[Owner].of
           /\ resolve_identifier(Owner) \in {seen.resp.items[i].id, seen.resp.items[i].sku}
    /\ (seen.key = "DEFAULT_HTTP" /\ result[Owner].outcome = "FOUND") =>
         seen.resp.url.host = "own" /\ ~seen.resp.url.root /\ (seen.resp.ruled => seen.resp.url.id = Handle)
    /\ result[Owner].outcome = "REPAIRED" => seen.resp.ruled

\* What _dedup_group_key says of a shared fetch: the answer does not depend on the match.
SiblingOwnVariant ==
  (Shopify /\ seen.resp.kind = "product" /\ seen.resp.handle = Handle) =>
    \A t \in _dedup_group_key(Owner) :
      result[t].outcome = "FOUND" =>
        result[t] = ShopifyProductJsonAdapter(seen.resp, identifiers_from_legacy_context(t))

\* What the contract says of Ambiguous: several variants fit, and none is guessed.
SeveralFitQuarantined ==
  (Shopify /\ result[Owner].outcome = "FOUND") =>
    Cardinality({v \in seen.resp.variants :
      \E x \in {ident[Owner], sku[Owner]} \ {Nil} : x \in {v.id, v.sku, v.barcode}}) <= 1
=============================================================================
