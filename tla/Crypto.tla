------------------------------- MODULE Crypto -------------------------------
(***************************************************************************)
(* The key store and the XOR and Caesar ciphers of src/security/crypto.c.  *)
(*                                                                         *)
(* Keys and contexts are kmalloc'd structures: a handle stands for the    *)
(* address, and a freed handle may be returned again by a later kmalloc.  *)
(* key_store[0 .. key_count-1] is the sequence key_store.  Callers hold    *)
(* the pointers crypto_generate_key and crypto_create_context returned and *)
(* pass them back; they destroy only what they hold.  Messages are short   *)
(* byte sequences; the cipher arithmetic keeps the uint8_t wrap.           *)
(* crypto_encrypt and crypto_decrypt write only the caller's buffer, so    *)
(* they are the operators Encrypt and Decrypt, not actions: CryptoRoundTrip *)
(* applies them to every context of every reachable state.                 *)
(***************************************************************************)
EXTENDS Integers, Sequences, SequencesExt, Functions, Bitwise, TLC

CONSTANTS
  KeyHandles,       \* addresses kmalloc may return for a crypto_key_t
  CtxHandles,       \* addresses kmalloc may return for a crypto_context_t
  MAX_CRYPTO_KEYS,  \* 16 in the code
  KeyLengths,       \* key_length arguments of crypto_generate_key
  Msgs,             \* inputs of crypto_encrypt and crypto_decrypt
  MaxKeyId          \* bound on next_key_id, so that the state space is finite

(* crypto_algorithm_t                                                      *)
CRYPTO_NONE == 0
CRYPTO_XOR == 1
CRYPTO_CAESAR == 2
CRYPTO_AES == 3
CRYPTO_RSA == 4
CRYPTO_SHA == 5
Algorithms == CRYPTO_NONE .. CRYPTO_SHA

VARIABLES
  key_store,     \* key_store[0 .. key_count-1]
  next_key_id,
  keys,          \* keys[h]: the crypto_key_t at each allocated address h
  contexts       \* contexts[c]: the crypto_context_t at each allocated c

cryptoVars == <<key_store, next_key_id, keys, contexts>>

Live(h) == h \in DOMAIN keys
LiveCtx(c) == c \in DOMAIN contexts

(* The bytes crypto_generate_key writes: key_data[i] = (i*29 + id*13) % 256. *)
KeyData(id, len) == [k \in 1 .. len |-> ((k - 1) * 29 + id * 13) % 256]

(* crypto_xor_process: out[i] = in[i] ^ key[i % key_length].              *)
XorProcess(in, key) ==
  [k \in 1 .. Len(in) |-> in[k] ^^ key[((k - 1) % Len(key)) + 1]]

(* crypto_caesar_encrypt / _decrypt: every byte plus or minus key[0], in   *)
(* uint8_t.                                                                *)
CaesarEncrypt(in, key) == [k \in 1 .. Len(in) |-> (in[k] + key[1]) % 256]
CaesarDecrypt(in, key) == [k \in 1 .. Len(in) |-> (in[k] + 256 - key[1]) % 256]

(* The key a context points to, with its data.                             *)
KeyOf(c) == LET k == keys[contexts[c].key] IN KeyData(k.id, k.length)

(* The return code of crypto_encrypt / crypto_decrypt and the bytes       *)
(* written to output (none for an error).                                  *)
Result(ret, out) == [ret |-> ret, out |-> out]

(* crypto_encrypt's switch: XOR and Caesar return 0, AES and RSA -2,     *)
(* anything else -3.                                                       *)
Encrypt(c, in) ==
  CASE contexts[c].algorithm = CRYPTO_XOR -> Result(0, XorProcess(in, KeyOf(c)))
    [] contexts[c].algorithm = CRYPTO_CAESAR -> Result(0, CaesarEncrypt(in, KeyOf(c)))
    [] contexts[c].algorithm \in {CRYPTO_AES, CRYPTO_RSA} -> Result(-2, <<>>)
    [] OTHER -> Result(-3, <<>>)

(* Mutant of Decrypt: the Caesar case calls crypto_caesar_encrypt, as     *)
(* crypto_encrypt does.                                                    *)
DecryptCaesarEncrypts(c, in) ==
  CASE contexts[c].algorithm = CRYPTO_XOR -> Result(0, XorProcess(in, KeyOf(c)))
    [] contexts[c].algorithm = CRYPTO_CAESAR -> Result(0, CaesarEncrypt(in, KeyOf(c)))
    [] contexts[c].algorithm \in {CRYPTO_AES, CRYPTO_RSA} -> Result(-2, <<>>)
    [] OTHER -> Result(-3, <<>>)

(* crypto_decrypt's switch.                                                *)
Decrypt(c, in) ==
  CASE contexts[c].algorithm = CRYPTO_XOR -> Result(0, XorProcess(in, KeyOf(c)))
    [] contexts[c].algorithm = CRYPTO_CAESAR -> Result(0, CaesarDecrypt(in, KeyOf(c)))
    [] contexts[c].algorithm \in {CRYPTO_AES, CRYPTO_RSA} -> Result(-2, <<>>)
    [] OTHER -> Result(-3, <<>>)

(* The key length crypto_generate_key settles on.                          *)
ClampedLength(alg, len) ==
  CASE alg = CRYPTO_XOR -> IF len < 4 THEN 4 ELSE IF len > 32 THEN 32 ELSE len
    [] alg = CRYPTO_CAESAR -> 1
    [] OTHER -> len
-----------------------------------------------------------------------------
CryptoInitState ==
  /\ key_store = <<>>
  /\ next_key_id = 1
  /\ keys = <<>>
  /\ contexts = <<>>

(* crypto_init: empty the store (key_count = 0).  The keys it held stay   *)
(* allocated, and next_key_id is not reset.                                *)
CryptoInit ==
  /\ key_store' = <<>>
  /\ UNCHANGED <<next_key_id, keys, contexts>>

(* crypto_generate_key(alg, len) when both kmallocs succeed at h: an      *)
(* algorithm other than XOR, Caesar and SHA returns NULL at once; else the *)
(* key gets next_key_id++ and the clamped length, and enters key_store if  *)
(* key_count < MAX_CRYPTO_KEYS.  It is returned either way.  When a       *)
(* kmalloc fails it returns NULL having changed nothing, a stutter.        *)
CryptoGenerateKey(alg, len, h) ==
  /\ alg \in {CRYPTO_XOR, CRYPTO_CAESAR, CRYPTO_SHA}
  /\ ~Live(h)
  /\ next_key_id < MaxKeyId
  /\ keys' = keys @@ (h :> [id |-> next_key_id, type |-> alg,
                             length |-> ClampedLength(alg, len)])
  /\ next_key_id' = next_key_id + 1
  /\ key_store' = IF Len(key_store) < MAX_CRYPTO_KEYS
                    THEN Append(key_store, h) ELSE key_store
  /\ UNCHANGED contexts

(* Mutant of RemoveKey: key_store[i] = key_store[key_count - 1] without   *)
(* the decrement, so the last entry is copied and the count kept.         *)
RemoveKeyNoDecrement(s, i) == [s EXCEPT ![i] = s[Len(s)]]

(* key_store[i] = key_store[--key_count]; key_store[key_count] = NULL.    *)
RemoveKey(s, i) == Front([s EXCEPT ![i] = s[Len(s)]])

(* crypto_destroy_key(key): the first store entry equal to key is         *)
(* replaced by the last one and the count drops; key and its data are     *)
(* freed whether or not the store held it.                                 *)
CryptoDestroyKey(h) ==
  /\ Live(h)
  /\ LET i == SelectInSeq(key_store, LAMBDA x : x = h) IN
       key_store' = IF i = 0 THEN key_store ELSE RemoveKey(key_store, i)
  /\ keys' = Restrict(keys, DOMAIN keys \ {h})
  /\ UNCHANGED <<next_key_id, contexts>>

(* crypto_create_context(alg, key): NULL unless key->type = alg, else a   *)
(* context at a fresh address c.                                           *)
CryptoCreateContext(alg, h, c) ==
  /\ Live(h)
  /\ keys[h].type = alg
  /\ ~LiveCtx(c)
  /\ contexts' = contexts @@ (c :> [algorithm |-> alg, key |-> h])
  /\ UNCHANGED <<key_store, next_key_id, keys>>

(* crypto_destroy_context(ctx): context_data is always NULL; free ctx.    *)
CryptoDestroyContext(c) ==
  /\ LiveCtx(c)
  /\ contexts' = Restrict(contexts, DOMAIN contexts \ {c})
  /\ UNCHANGED <<key_store, next_key_id, keys>>

(* The contexts whose key is still allocated.                             *)
Usable == {c \in DOMAIN contexts : Live(contexts[c].key)}

CryptoNext ==
  \/ CryptoInit
  \/ \E alg \in Algorithms, len \in KeyLengths, h \in KeyHandles :
       CryptoGenerateKey(alg, len, h)
  \/ \E h \in KeyHandles : CryptoDestroyKey(h)
  \/ \E alg \in Algorithms, h \in KeyHandles, c \in CtxHandles :
       CryptoCreateContext(alg, h, c)
  \/ \E c \in CtxHandles : CryptoDestroyContext(c)

CryptoSpec == CryptoInitState /\ [][CryptoNext]_cryptoVars

-----------------------------------------------------------------------------
CryptoTypeOK ==
  /\ key_store \in Seq(KeyHandles)
  /\ Len(key_store) <= MAX_CRYPTO_KEYS
  /\ next_key_id \in 1 .. MaxKeyId
  /\ DOMAIN keys \subseteq KeyHandles
  /\ \A h \in DOMAIN keys :
       keys[h] \in [id : 1 .. MaxKeyId - 1,
                    type : {CRYPTO_XOR, CRYPTO_CAESAR, CRYPTO_SHA}, length : Nat]
  /\ DOMAIN contexts \subseteq CtxHandles
  /\ \A c \in DOMAIN contexts :
       contexts[c] \in [algorithm : Algorithms, key : KeyHandles]

(* After any sequence of crypto_init, generate and destroy calls, the key *)
(* store lists keys that are still allocated, each at most once, and no   *)
(* more than MAX_CRYPTO_KEYS: the swap-with-last removal neither leaves a *)
(* freed key behind nor duplicates the moved one.                          *)
KeyStoreExact ==
  /\ IsInjective(key_store)
  /\ \A i \in 1 .. Len(key_store) : Live(key_store[i])
  /\ Len(key_store) <= MAX_CRYPTO_KEYS

(* For every context whose key is allocated, crypto_decrypt undoes         *)
(* crypto_encrypt on every message, whichever key length was clamped to    *)
(* and wherever the uint8_t sums wrap; AES, RSA and SHA contexts return    *)
(* the same error code both ways.                                          *)
CryptoRoundTrip ==
  \A c \in Usable, m \in Msgs :
      LET e == Encrypt(c, m) IN
        IF e.ret = 0 THEN Decrypt(c, e.out) = Result(0, m) ELSE Decrypt(c, m) = e
=============================================================================
