----------------------------- MODULE TransitKeys -----------------------------
(* The Vault Transit key that signs access tokens, as several API processes see
   it: each keeps a copy of the public keys for a minute, while a script rotates
   the key and raises its floor under them.                                   *)
EXTENDS Naturals

CONSTANTS
  Processes,  \* API processes, each with a cache of its own
  MaxKeys     \* bound on versions of the key

ASSUME KeysAssumption == MaxKeys \in Nat \ {0}

VARIABLES
  vaultKey,   \* latest and min_decryption_version, and whether a rotation is half done
  keyCache    \* _public_key_cache of each process

keyVars == <<vaultKey, keyCache>>

ColdCache == [keys |-> {}, min |-> 1, latest |-> 1, fresh |-> FALSE]

KeysInit ==
  /\ vaultKey = [latest |-> 1, min |-> 1, rotating |-> FALSE]
  /\ keyCache = [p \in Processes |-> ColdCache]

(* The transit key.  read_key returns the versions Vault has not archived. *)

FetchedCache == [keys |-> vaultKey.min .. vaultKey.latest, min |-> vaultKey.min,
                 latest |-> vaultKey.latest, fresh |-> TRUE]

CacheFor(p) == IF keyCache[p].fresh THEN keyCache[p] ELSE FetchedCache

(* Mutant: an unknown key version is not a reason to ask Vault. *)
PublicKeyCache_NoRefetch(p, kid) == CacheFor(p)

PublicKeyCache(p, kid) ==
  IF keyCache[p].fresh /\ kid \in keyCache[p].keys THEN keyCache[p] ELSE FetchedCache

(* decode_access_token: the signature, then the floor, both from the cache. *)
DecodeAccepts(p, kid) ==
  LET c == PublicKeyCache(p, kid) IN kid \in c.keys /\ kid >= c.min

CheckToken(p, kid) ==
  /\ keyCache' = [keyCache EXCEPT ![p] = PublicKeyCache(p, kid)]
  /\ UNCHANGED vaultKey

CacheExpires(p) ==
  /\ keyCache[p].fresh
  /\ keyCache' = [keyCache EXCEPT ![p].fresh = FALSE]
  /\ UNCHANGED vaultKey

(* rotate_key runs elsewhere: a new version first, the floor after it. *)
RotateKey ==
  /\ ~vaultKey.rotating /\ vaultKey.latest < MaxKeys
  /\ vaultKey' = [vaultKey EXCEPT !.latest = @ + 1, !.rotating = TRUE]
  /\ UNCHANGED keyCache

RaiseFloor ==
  /\ vaultKey.rotating
  /\ vaultKey' = [vaultKey EXCEPT !.min = vaultKey.latest, !.rotating = FALSE]
  /\ UNCHANGED keyCache

(* _create_token: the version comes from the cache, and Vault refuses to sign
   with one it has archived; the caller's request then fails as a whole. *)
Signs(p) == CacheFor(p).latest >= vaultKey.min

CreateToken(p) ==
  /\ keyCache' = [keyCache EXCEPT ![p] = CacheFor(p)]
  /\ UNCHANGED vaultKey

KeysNext ==
  \/ \E p \in Processes : CreateToken(p) \/ CacheExpires(p)
  \/ \E p \in Processes, kid \in 1 .. MaxKeys : CheckToken(p, kid)
  \/ RotateKey \/ RaiseFloor

KeysSpec == KeysInit /\ [][KeysNext]_keyVars

-----------------------------------------------------------------------------
(* Wherever a token can be signed now, every other process accepts it, however
   old either copy of the keys is: an unknown version makes it ask Vault, and a
   version below a floor someone has seen can no longer be signed with. *)
SignedIsAccepted ==
  \A p, q \in Processes : Signs(p) => DecodeAccepts(q, CacheFor(p).latest)
=============================================================================
