------------------------------ MODULE Catalogue ------------------------------
(***************************************************************************)
(* One workspace's catalogue behind the API: products, variants, matches   *)
(* and group items (routers/products.py, variants.py, matches.py,          *)
(* product_groups.py) and the set-based upserts they run                   *)
(* (catalog/upsert.py, matches/upsert.py).  A request resolves its         *)
(* references and makes its checks on what is committed when it begins,    *)
(* writes, and commits with its answer; nothing is locked in between, so   *)
(* what a check has counted may be stale when the rows go in.  The unique  *)
(* indexes and foreign keys of the tables are checked by the write.        *)
(* One competitor; a URL is protected when its access policy may use a     *)
(* proxy or a browser.                                                     *)
(***************************************************************************)
EXTENDS Integers, FiniteSets, Sequences, SequencesExt

CONSTANTS Clients,
          Products, Variants,    \* row ids, 1..n: as many as the requests can insert
          ProductRows,           \* payload rows [ext, sku, title, active, nested]
          VariantRows,           \* payload rows [product, ext, sku, title]
          MatchRows,             \* payload rows [by, id, url]
          Urls, ProtectedUrls,
          Ceiling,               \* the plan's product_ceiling
          MaxProtected,          \* MAX_PROTECTED_LINKS_PER_PRODUCT
          MaxRequests            \* requests explored

VARIABLES product, variant, matches, items, jobs, req, requests, excuse

vars == <<product, variant, matches, items, jobs, req, requests, excuse>>
tables == <<product, variant, matches, items, jobs>>

Nil == "none"
NoRow == [gone |-> TRUE]
NoReq == [op |-> "none"]
There(T) == {i \in DOMAIN T : T[i] # NoRow}
Free(T) == CHOOSE i \in DOMAIN T \ There(T) : \A j \in DOMAIN T \ There(T) : i <= j

(***************************************************************************)
(* catalog/upsert.py                                                       *)
(***************************************************************************)
resolve_identity(row, isVariant) ==
    IF row.ext # Nil THEN <<"external_id", row.ext>>
    ELSE IF row.sku # Nil THEN <<"sku", row.sku>>
    ELSE IF isVariant THEN <<"product_title", row.product, row.title>> ELSE <<Nil>>

\* Mutant: the first of two rows with one key is kept.
dedup_last_wins_First(rows, key) ==
    LET keep == {i \in DOMAIN rows : key[i] = <<Nil>> \/
                   ~ \E j \in DOMAIN rows : j < i /\ key[j] = key[i]}
    IN  [n \in 1..Cardinality(keep) |->
           rows[CHOOSE i \in keep : Cardinality({j \in keep : j <= i}) = n]]

(* A later duplicate overwrites the earlier row in its place.              *)
dedup_last_wins(rows, key) ==
    LET first == {i \in DOMAIN rows : key[i] = <<Nil>> \/
                    ~ \E j \in DOMAIN rows : j < i /\ key[j] = key[i]}
        last(i) == IF key[i] = <<Nil>> THEN i
                   ELSE CHOOSE j \in DOMAIN rows : key[j] = key[i] /\
                          \A k \in DOMAIN rows : key[k] = key[i] => k <= j
    IN  [n \in 1..Cardinality(first) |->
           rows[last(CHOOSE i \in first : Cardinality({j \in first : j <= i}) = n)]]

(* The unique indexes of the two tables.                                   *)
Clash(T, isVariant) ==
    \E i, j \in There(T) : i # j /\
       \/ T[i].ext # Nil /\ T[i].ext = T[j].ext
       \/ T[i].sku # Nil /\ T[i].sku = T[j].sku
       \/ isVariant /\ T[i].product = T[j].product /\ T[i].title = T[j].title

(* One row of INSERT ... ON CONFLICT (identity) DO UPDATE: every column,   *)
(* the variant's product_id included, takes the row's value.               *)
UpsertRow(acc, row, isVariant) ==
    LET T == acc.t
        id == resolve_identity(row, isVariant)
        hit == {i \in There(T) :
                  CASE id[1] = "external_id" -> T[i].ext = row.ext
                    [] id[1] = "sku" -> T[i].sku = row.sku
                    [] id[1] = "product_title" ->
                         T[i].product = row.product /\ T[i].title = row.title
                    [] OTHER -> FALSE}
        at == IF hit = {} THEN Free(T) ELSE CHOOSE i \in hit : TRUE
        t2 == [T EXCEPT ![at] = row]
    IN  IF ~ acc.ok \/ Clash(t2, isVariant) THEN [acc EXCEPT !.ok = FALSE]
        ELSE [ok |-> TRUE, t |-> t2, ids |-> Append(acc.ids, at)]

(* At most one statement per identity kind, in order of first appearance.  *)
_partition_by_identity_kind(rows, isVariant) ==
    LET kind(i) == resolve_identity(rows[i], isVariant)[1]
        of(k) == SelectSeq(rows, LAMBDA r : resolve_identity(r, isVariant)[1] = k)
        heads == {i \in DOMAIN rows : ~ \E j \in DOMAIN rows : j < i /\ kind(j) = kind(i)}
    IN  FoldLeft(LAMBDA acc, i : IF i \in heads THEN acc \o of(kind(i)) ELSE acc,
                 <<>>, [i \in DOMAIN rows |-> i])

plan_upsert(T, rows, isVariant) ==
    LET deduped == dedup_last_wins(rows,
                     [i \in DOMAIN rows |-> resolve_identity(rows[i], isVariant)])
        ordered == _partition_by_identity_kind(deduped, isVariant)
    IN  FoldLeft(LAMBDA acc, r : UpsertRow(acc, r, isVariant),
                 [ok |-> TRUE, t |-> T, ids |-> <<>>], ordered)

derive_default_variant(row, p) ==
    [product |-> p, ext |-> Nil, sku |-> row.sku, title |-> row.title]

\* Mutant: a product pushed without variants gets none.
VariantsOf_None(row, p) ==
    [i \in DOMAIN row.nested |-> [row.nested[i] EXCEPT !.product = p]]

(* A product's nested variants, or the default one.                        *)
VariantsOf(row, p) ==
    IF row.nested = <<>> THEN <<derive_default_variant(row, p)>>
    ELSE [i \in DOMAIN row.nested |-> [row.nested[i] EXCEPT !.product = p]]

Stored(row) == [ext |-> row.ext, sku |-> row.sku, title |-> row.title, active |-> row.active]

(***************************************************************************)
(* The checks                                                              *)
(***************************************************************************)
_count_active_products == Cardinality({p \in There(product) : product[p].active})

\* Mutant: a row without an identity counts as known.
count_new_products_Known(rows) ==
    Cardinality({i \in DOMAIN rows :
      LET id == resolve_identity(rows[i], FALSE)
      IN  id # <<Nil>> /\
          ~ \E p \in There(product) :
              IF id[1] = "external_id" THEN product[p].ext = id[2] ELSE product[p].sku = id[2]})

count_new_products(rows) ==
    Cardinality({i \in DOMAIN rows :
      LET id == resolve_identity(rows[i], FALSE)
      IN  id = <<Nil>> \/
          ~ \E p \in There(product) :
              IF id[1] = "external_id" THEN product[p].ext = id[2] ELSE product[p].sku = id[2]})

CeilingAllows(new) == new <= 0 \/ _count_active_products + new <= Ceiling

Protected(m) == m.url \in ProtectedUrls
ProtectedOf(p) == Cardinality({m \in matches : m.p = p /\ Protected(m)})

_check_protected_link_cap(p, url) ==
    url \in ProtectedUrls => ProtectedOf(p) < MaxProtected

\* Mutant: every row of a batch is checked on its own.
_bulk_protected_cap_check_PerRow(rows) ==
    \A i \in DOMAIN rows : _check_protected_link_cap(rows[i].p, rows[i].url)

(* A row that updates a match already stored is counted twice.             *)
_bulk_protected_cap_check(rows) ==
    \A p \in Products :
      ProtectedOf(p) + Cardinality({i \in DOMAIN rows : rows[i].p = p /\ Protected(rows[i])})
        <= MaxProtected \/ ~ \E i \in DOMAIN rows : rows[i].p = p

Resolves(r) == {v \in There(variant) :
    CASE r.by = "id" -> v = r.id
      [] r.by = "external_id" -> variant[v].ext = r.id
      [] r.by = "sku" -> variant[v].sku = r.id}

(* The key of a row that names its variant otherwise has no variant in it. *)
match_conflict_key(r) == <<IF r.by = "id" THEN r.id ELSE 0, r.url>>

resolve_match_variants(rows) ==
    [i \in DOMAIN rows |->
       LET v == CHOOSE v \in Resolves(rows[i]) : TRUE
       IN  [v |-> v, p |-> variant[v].product, url |-> rows[i].url]]

\* Mutant: only running jobs hold a rescrape back.
InFlight_Running(v) == jobs[v].running > 0

InFlight(v) == jobs[v].pending + jobs[v].running > 0

(***************************************************************************)
(* Requests: what they check and prepare                                   *)
(***************************************************************************)
Init ==
    /\ product = [p \in Products |-> IF p > 2 THEN NoRow
                    ELSE [ext |-> IF p = 1 THEN "x1" ELSE Nil, sku |-> Nil,
                          title |-> "t1", active |-> TRUE]]
    /\ variant = [v \in Variants |-> IF v > 2 THEN NoRow
                    ELSE [product |-> v, ext |-> IF v = 1 THEN "e1" ELSE "e2",
                          sku |-> IF v = 1 THEN "s1" ELSE Nil, title |-> "t1"]]
    /\ matches = {} /\ items = {}
    /\ jobs = [v \in Variants |-> [pending |-> 0, running |-> 0]]
    /\ req = [c \in Clients |-> NoReq] /\ requests = 0 /\ excuse = {}

Begins(c, r) ==
    /\ req' = [req EXCEPT ![c] = r] /\ requests' = requests + 1
    /\ excuse' = IF \E d \in Clients : req[d] # NoReq THEN excuse \cup {"overlapped"} ELSE excuse
    /\ UNCHANGED tables

(* Payloads of one row or of two different ones.                           *)
Batches(R) == {<<r>> : r \in R} \cup {b \in R \X R : b[1] # b[2]}

create_product(c) ==
    \E row \in ProductRows : CeilingAllows(1) /\ Begins(c, [op |-> "create_product", row |-> row])

bulk_upsert_products(c) ==
    \E batch \in Batches(ProductRows) :
      LET rows == dedup_last_wins(batch, [i \in DOMAIN batch |-> resolve_identity(batch[i], FALSE)])
      IN  /\ CeilingAllows(count_new_products(rows))
          /\ Begins(c, [op |-> "products", rows |-> rows])

update_product(c) ==
    \E p \in There(product) :
      Begins(c, [op |-> "update_product", p |-> p, active |-> ~ product[p].active])

delete_product(c) ==
    \E p \in There(product) : Begins(c, [op |-> "delete_product", p |-> p])

bulk_upsert_variants(c) ==
    \E batch \in Batches(VariantRows) :
      /\ \A i \in DOMAIN batch : product[batch[i].product] # NoRow
      /\ Begins(c, [op |-> "variants", rows |-> batch])

create_match(c) ==
    \E v \in There(variant), url \in Urls :
      /\ _check_protected_link_cap(variant[v].product, url)
      /\ Begins(c, [op |-> "create_match", v |-> v, p |-> variant[v].product, url |-> url])

(* The matches a payload names, for the property only.                     *)
Named(batch) == UNION {{<<v, batch[i].url>> : v \in Resolves(batch[i])} : i \in DOMAIN batch}

bulk_upsert_matches(c) ==
    \E batch \in Batches(MatchRows) :
      LET kept == dedup_last_wins(batch, [i \in DOMAIN batch |-> match_conflict_key(batch[i])])
          rows == resolve_match_variants(kept)
      IN  /\ \A i \in DOMAIN kept : Resolves(kept[i]) # {}
          /\ _bulk_protected_cap_check(rows)
          /\ Begins(c, [op |-> "matches", rows |-> rows, named |-> Named(batch)])

update_match(c) ==
    \E m \in matches, url \in Urls :
      m.url # url /\ Begins(c, [op |-> "update_match", m |-> m, url |-> url])

delete_match(c) == \E m \in matches : Begins(c, [op |-> "delete_match", m |-> m])

add_group_item(c) ==
    \E v \in There(variant) : v \notin items /\ Begins(c, [op |-> "add_item", v |-> v])

remove_group_item(c) == \E v \in items : Begins(c, [op |-> "remove_item", v |-> v])

rescrape_variant(c) ==
    \E v \in There(variant) :
      /\ ~ InFlight(v) /\ \E m \in matches : m.v = v
      /\ Begins(c, [op |-> "rescrape", v |-> v])

(***************************************************************************)
(* Requests: what they write                                               *)
(***************************************************************************)
Answer(c, newExcuse) ==
    req' = [req EXCEPT ![c] = NoReq] /\ excuse' = excuse \cup newExcuse /\ UNCHANGED requests

(* A raised error rolls the whole request back.                            *)
Fails(c) == Answer(c, {}) /\ UNCHANGED tables

Moves(T) == IF \E v \in There(variant) : T[v] # NoRow /\ T[v].product # variant[v].product
            THEN {"moved"} ELSE {}

CommitCreateProduct(c) ==
    /\ req[c].op = "create_product"
    /\ LET p == Free(product)
           row == req[c].row
           P == [product EXCEPT ![p] = Stored(row)]
           vrow == VariantsOf(row, p)
           V == IF vrow = <<>> THEN variant ELSE [variant EXCEPT ![Free(variant)] = vrow[1]]
       IN  IF Clash(P, FALSE) \/ Clash(V, TRUE) THEN Fails(c)
           ELSE product' = P /\ variant' = V /\ Answer(c, {}) /\ UNCHANGED <<matches, items, jobs>>

(* The product statements, then the variants of every row by its new id.   *)
CommitProducts(c) ==
    /\ req[c].op = "products"
    /\ LET rows == _partition_by_identity_kind(req[c].rows, FALSE)
           P == FoldLeft(LAMBDA acc, r : UpsertRow(acc, Stored(r), FALSE),
                         [ok |-> TRUE, t |-> product, ids |-> <<>>], rows)
           vrows == FoldLeft(LAMBDA acc, i : acc \o VariantsOf(rows[i], P.ids[i]),
                             <<>>, [i \in DOMAIN rows |-> i])
           V == plan_upsert(variant, vrows, TRUE)
           revived == IF \E p \in There(product) : P.t[p].active /\ ~ product[p].active
                      THEN {"reactivated"} ELSE {}
       IN  IF ~ P.ok \/ ~ V.ok THEN Fails(c)
           ELSE /\ product' = P.t /\ variant' = V.t
                /\ Answer(c, Moves(V.t) \cup revived) /\ UNCHANGED <<matches, items, jobs>>

CommitUpdateProduct(c) ==
    /\ req[c].op = "update_product"
    /\ IF product[req[c].p] = NoRow THEN Fails(c)
       ELSE /\ product' = [product EXCEPT ![req[c].p].active = req[c].active]
            /\ Answer(c, IF req[c].active THEN {"reactivated"} ELSE {})
            /\ UNCHANGED <<variant, matches, items, jobs>>

(* The variants first, then the product; a match or an item that refers to *)
(* them makes the statement fail.                                          *)
CommitDeleteProduct(c) ==
    /\ req[c].op = "delete_product"
    /\ LET p == req[c].p
           mine == {v \in There(variant) : variant[v].product = p}
       IN  IF product[p] = NoRow \/ mine \cap items # {}
              \/ \E m \in matches : m.p = p \/ m.v \in mine
           THEN Fails(c)
           ELSE /\ product' = [product EXCEPT ![p] = NoRow]
                /\ variant' = [v \in Variants |-> IF v \in mine THEN NoRow ELSE variant[v]]
                /\ Answer(c, {}) /\ UNCHANGED <<matches, items, jobs>>

CommitVariants(c) ==
    /\ req[c].op = "variants"
    /\ LET V == plan_upsert(variant, req[c].rows, TRUE)
       IN  IF ~ V.ok \/ \E i \in DOMAIN req[c].rows : product[req[c].rows[i].product] = NoRow
           THEN Fails(c)
           ELSE variant' = V.t /\ Answer(c, Moves(V.t)) /\ UNCHANGED <<product, matches, items, jobs>>

Dangling(m) == product[m.p] = NoRow \/ variant[m.v] = NoRow
SameMatch(m, n) == m.v = n.v /\ m.url = n.url

CommitCreateMatch(c) ==
    /\ req[c].op = "create_match"
    /\ LET m == [v |-> req[c].v, p |-> req[c].p, url |-> req[c].url]
       IN  IF Dangling(m) \/ \E n \in matches : SameMatch(m, n) THEN Fails(c)
           ELSE matches' = matches \cup {m} /\ Answer(c, {}) /\ UNCHANGED <<product, variant, items, jobs>>

(* One statement: it may not touch a row twice, and product_id is not      *)
(* among the columns it updates.                                           *)
CommitMatches(c) ==
    /\ req[c].op = "matches"
    /\ LET rows == req[c].rows
           fresh == {rows[i] : i \in {j \in DOMAIN rows : ~ \E n \in matches : SameMatch(rows[j], n)}}
       IN  IF \/ \E i \in DOMAIN rows : Dangling(rows[i])
              \/ \E i, j \in DOMAIN rows : i # j /\ SameMatch(rows[i], rows[j])
           THEN Fails(c)
           ELSE matches' = matches \cup fresh /\ Answer(c, {}) /\ UNCHANGED <<product, variant, items, jobs>>

CommitUpdateMatch(c) ==
    /\ req[c].op = "update_match"
    /\ LET m == req[c].m
           new == [m EXCEPT !.url = req[c].url]
       IN  IF m \notin matches \/ \E n \in matches : SameMatch(new, n) THEN Fails(c)
           ELSE /\ matches' = (matches \ {m}) \cup {new}
                /\ Answer(c, {"patched"}) /\ UNCHANGED <<product, variant, items, jobs>>

CommitDeleteMatch(c) ==
    /\ req[c].op = "delete_match"
    /\ matches' = matches \ {req[c].m} /\ Answer(c, {}) /\ UNCHANGED <<product, variant, items, jobs>>

CommitItem(c) ==
    /\ req[c].op \in {"add_item", "remove_item"}
    /\ IF req[c].op = "add_item" /\ (variant[req[c].v] = NoRow \/ req[c].v \in items) THEN Fails(c)
       ELSE /\ items' = IF req[c].op = "add_item" THEN items \cup {req[c].v} ELSE items \ {req[c].v}
            /\ Answer(c, {}) /\ UNCHANGED <<product, variant, matches, jobs>>

CommitRescrape(c) ==
    /\ req[c].op = "rescrape"
    /\ jobs' = [jobs EXCEPT ![req[c].v].pending = @ + 1]
    /\ Answer(c, {}) /\ UNCHANGED <<product, variant, matches, items>>

JobStarts(v) ==
    /\ jobs[v].pending > 0
    /\ jobs' = [jobs EXCEPT ![v] = [pending |-> @.pending - 1, running |-> @.running + 1]]
    /\ UNCHANGED <<product, variant, matches, items, req, requests, excuse>>

Begin(c) ==
    /\ requests < MaxRequests /\ req[c] = NoReq
    /\ \/ create_product(c) \/ bulk_upsert_products(c) \/ update_product(c) \/ delete_product(c)
       \/ bulk_upsert_variants(c) \/ create_match(c) \/ bulk_upsert_matches(c)
       \/ update_match(c) \/ delete_match(c)
       \/ add_group_item(c) \/ remove_group_item(c) \/ rescrape_variant(c)

Commit(c) ==
    \/ CommitCreateProduct(c) \/ CommitProducts(c) \/ CommitUpdateProduct(c)
    \/ CommitDeleteProduct(c) \/ CommitVariants(c) \/ CommitCreateMatch(c)
    \/ CommitMatches(c) \/ CommitUpdateMatch(c) \/ CommitDeleteMatch(c)
    \/ CommitItem(c) \/ CommitRescrape(c)

Next == (\E c \in Clients : Begin(c) \/ Commit(c)) \/ (\E v \in Variants : JobStarts(v))

Spec == Init /\ [][Next]_vars

(***************************************************************************)
(* Properties                                                              *)
(***************************************************************************)
(* A product goes over its protected links only when two requests overlap  *)
(* or a PATCH gives a match a new URL, which checks no cap: neither a      *)
(* batch, nor a mix of batches and single creates, gets past it.           *)
CapExcused ==
    \A p \in Products : ProtectedOf(p) > MaxProtected => excuse \cap {"overlapped", "patched"} # {}

(* The plan's ceiling is passed only by overlapping requests or by a       *)
(* product made active again, which is not counted as new.                 *)
CeilingExcused ==
    _count_active_products > Ceiling => excuse \cap {"overlapped", "reactivated"} # {}

(* A product loses its last variant only to an upsert that moved the       *)
(* variant to another product.                                             *)
EmptiedByMove ==
    \A p \in There(product) :
      (\E v \in There(variant) : variant[v].product = p) \/ "moved" \in excuse

(* Without overlapping requests a variant never has two unfinished         *)
(* rescrapes, whatever becomes of the first one.                           *)
RescrapeOnce ==
    \A v \in Variants : jobs[v].pending + jobs[v].running > 1 => "overlapped" \in excuse

(* The upsert of a batch of variants, deduplicated and regrouped by        *)
(* identity kind, leaves the rows that its payload applied one by one      *)
(* would, when both go through.                                            *)
BulkIsSequential ==
    \A c \in Clients : req[c].op = "variants" =>
      LET bulk == plan_upsert(variant, req[c].rows, TRUE)
          single == FoldLeft(LAMBDA acc, r : UpsertRow(acc, r, TRUE),
                             [ok |-> TRUE, t |-> variant, ids |-> <<>>], req[c].rows)
      IN  bulk.ok /\ single.ok =>
            {bulk.t[v] : v \in There(bulk.t)} = {single.t[v] : v \in There(single.t)}

(* specs/004: "A product MUST always retain at least one variant ... no    *)
(* current endpoint can drop a product to zero variants".                  *)
ProductHasVariant ==
    \A p \in There(product) : \E v \in There(variant) : variant[v].product = p

(* matches/upsert.py: duplicates collapse on the match key (variant,       *)
(* competitor, URL); rows of two different variants are two matches.       *)
RowKept ==
    \A c \in Clients : req[c].op = "matches" =>
      \A n \in req[c].named : \E j \in DOMAIN req[c].rows :
        req[c].rows[j].v = n[1] /\ req[c].rows[j].url = n[2]
=============================================================================
