---------------------------- MODULE ResourceCache ----------------------------
(***************************************************************************)
(* ResourceCache<T> (src/includes/hb_cache.hh): a std::map from a string   *)
(* key to the address of a wrapper object.  The map never owns what it     *)
(* holds.  A cache is a total function from keys to addresses in which a   *)
(* key that is not in the map is bound to nullptr, which is also what      *)
(* get_resrc returns for it; the library registers only non-null pointers. *)
(***************************************************************************)
CONSTANT nullptr    \* the null address

\* A map with no entry.
EmptyCache(Key) == [key \in Key |-> nullptr]

is_registered(cache, key) == cache[key] # nullptr

\* A faulty registration: std::map::operator[] in place of insert.
register_overwriting(cache, key, resrc) == [cache EXCEPT ![key] = resrc]

\* An existing entry wins: a second registration under the key is refused
\* with CACHE_RETCODE_ALREADY_EXIST_ERR and the map is left alone.
register_resrc(cache, key, resrc) ==
    IF is_registered(cache, key) THEN cache ELSE [cache EXCEPT ![key] = resrc]

get_resrc(cache, key) == cache[key]

=============================================================================
