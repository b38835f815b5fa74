----------------------------- MODULE QueryString -----------------------------
(***************************************************************************)
(* The array behind http\QueryString (php_http_querystring.c): parsing a   *)
(* query into it, merging another array into it, and writing it out.       *)
(***************************************************************************)
EXTENDS Params

\* An entry whose slot holds no value (IS_UNDEF): there for the count of the
\* array, not for anyone who reads or copies it.
Undef == [undef |-> TRUE]
Copied(entries) == SelectSeq(entries, LAMBDA e : e.v # Undef)

\* What a reader sees.
RECURSIVE Visible(_)
Visible(entries) ==
  LET kept == Copied(entries)
  IN [i \in DOMAIN kept |-> [kept[i] EXCEPT !.v = IF IsArr(@) THEN Arr(Visible(@.arr)) ELSE @]]

\* apply_querystring_filter(): NULLs go, and arrays that have no entry left.
RECURSIVE Filtered(_)
Filtered(entries) ==
  LET inner == [i \in DOMAIN entries |->
                  [entries[i] EXCEPT !.v = IF IsArr(@) THEN Arr(Filtered(@.arr)) ELSE @]]
  IN SelectSeq(inner, LAMBDA e : e.v # Null /\ e.v # Arr(<<>>))

\* Variant: what is no array is dropped.
AsArrayEmpty(v) == IF IsArr(v) THEN Copied(v.arr) ELSE <<>>

\* convert_to_array()
AsArray(v) == CASE IsArr(v) -> Copied(v.arr)
                [] v = Null -> <<>>
                [] OTHER    -> <<[k |-> <<"0">>, v |-> v]>>

\* php_http_querystring_update(): NULL deletes, an array is merged into what
\* is there, a value replaces it.  A value that is identical to what is there
\* leaves entry NULL, and an undefined value is stored.
RECURSIVE querystring_update(_, _)
querystring_update(qa, params) ==
  LET step(q, e) ==
        CASE e.k = <<>>               -> q
          [] e.k # <<>> /\ e.v = Null -> Del(q, e.k)
          [] e.k # <<>> /\ e.v # Null /\ Has(q, e.k) /\ IsArr(e.v) ->
               Put(q, e.k, Arr(querystring_update(AsArray(Find(q, e.k)), e.v.arr)))
          [] e.k # <<>> /\ e.v # Null /\ Has(q, e.k) /\ ~IsArr(e.v) ->
               Put(q, e.k, IF Find(q, e.k) = e.v THEN Undef ELSE e.v)
          [] OTHER                    -> Put(q, e.k, e.v)
  IN Filtered(FoldLeft(step, qa, params))

\* php_http_querystring_parse(), and apply_querystring(), which leaves only
\* the value of every parameter.
querystring_parse(text) ==
  LET t == params_parse(Query, text).table.arr
  IN [i \in DOMAIN t |-> [t[i] EXCEPT !.v = Find(@.arr, VALUE)]]

\* php_http_querystring_set(), with and without QS_MERGE.
querystring_set(qa, params, merge) ==
  querystring_update(IF merge THEN Copied(qa) ELSE <<>>, params)

\* php_http_querystring_str(): an update without parameters, which filters
\* the object's own array, and the text of what is left.
querystring_written(qa) == Filtered(qa)
querystring_str(qa) == params_to_string(Query, Visible(querystring_written(qa)))
=============================================================================
