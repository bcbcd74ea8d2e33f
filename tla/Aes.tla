-------------------------------- MODULE Aes --------------------------------
(***************************************************************************)
(* The AES block cipher of src/security/aes.c, and a caller that holds one *)
(* aes_context_t and calls the five entry points on it.                    *)
(*                                                                         *)
(* A byte is a natural below 256 and a block, key or expanded key is a    *)
(* sequence of bytes; At(s, i) is the byte C calls s[i], so that every     *)
(* step reads like the loop it translates.  The cipher is kept bit-exact: *)
(* the checks below compare it with FIPS-197 and with the definition of   *)
(* CBC chaining.  The NULL checks of the entry points are left out: the    *)
(* caller passes valid buffers.                                            *)
(***************************************************************************)
EXTENDS Naturals, Sequences, SequencesExt, Bitwise, TLC

CONSTANTS
  Keys,        \* Keys[n]: the key a caller passes with key_size n
  KeySizes,    \* key_size values passed to aes_init (16, 24, 32, and others)
  Plains,      \* blocks passed to aes_encrypt_block
  Ivs,         \* IVs passed to the CBC functions
  Messages     \* inputs of the CBC functions, as sequences of blocks

AES_BLOCK_SIZE == 16

(* aes_key_size_t of include/security/aes.h: the key length in bytes.    *)
AES_128 == 16
AES_192 == 24
AES_256 == 32

NoCtx == [rounds |-> 0, w |-> <<>>]

VARIABLES
  aes_ctx,     \* the caller's aes_context_t (NoCtx before aes_init)
  aes_key,     \* history: the key of the last aes_init that returned 0
  aes_last     \* history: the last call, its inputs, output and result

aesVars == <<aes_ctx, aes_key, aes_last>>

sbox == <<
  \h63, \h7c, \h77, \h7b, \hf2, \h6b, \h6f, \hc5, \h30, \h01, \h67, \h2b, \hfe, \hd7, \hab, \h76,
  \hca, \h82, \hc9, \h7d, \hfa, \h59, \h47, \hf0, \had, \hd4, \ha2, \haf, \h9c, \ha4, \h72, \hc0,
  \hb7, \hfd, \h93, \h26, \h36, \h3f, \hf7, \hcc, \h34, \ha5, \he5, \hf1, \h71, \hd8, \h31, \h15,
  \h04, \hc7, \h23, \hc3, \h18, \h96, \h05, \h9a, \h07, \h12, \h80, \he2, \heb, \h27, \hb2, \h75,
  \h09, \h83, \h2c, \h1a, \h1b, \h6e, \h5a, \ha0, \h52, \h3b, \hd6, \hb3, \h29, \he3, \h2f, \h84,
  \h53, \hd1, \h00, \hed, \h20, \hfc, \hb1, \h5b, \h6a, \hcb, \hbe, \h39, \h4a, \h4c, \h58, \hcf,
  \hd0, \hef, \haa, \hfb, \h43, \h4d, \h33, \h85, \h45, \hf9, \h02, \h7f, \h50, \h3c, \h9f, \ha8,
  \h51, \ha3, \h40, \h8f, \h92, \h9d, \h38, \hf5, \hbc, \hb6, \hda, \h21, \h10, \hff, \hf3, \hd2,
  \hcd, \h0c, \h13, \hec, \h5f, \h97, \h44, \h17, \hc4, \ha7, \h7e, \h3d, \h64, \h5d, \h19, \h73,
  \h60, \h81, \h4f, \hdc, \h22, \h2a, \h90, \h88, \h46, \hee, \hb8, \h14, \hde, \h5e, \h0b, \hdb,
  \he0, \h32, \h3a, \h0a, \h49, \h06, \h24, \h5c, \hc2, \hd3, \hac, \h62, \h91, \h95, \he4, \h79,
  \he7, \hc8, \h37, \h6d, \h8d, \hd5, \h4e, \ha9, \h6c, \h56, \hf4, \hea, \h65, \h7a, \hae, \h08,
  \hba, \h78, \h25, \h2e, \h1c, \ha6, \hb4, \hc6, \he8, \hdd, \h74, \h1f, \h4b, \hbd, \h8b, \h8a,
  \h70, \h3e, \hb5, \h66, \h48, \h03, \hf6, \h0e, \h61, \h35, \h57, \hb9, \h86, \hc1, \h1d, \h9e,
  \he1, \hf8, \h98, \h11, \h69, \hd9, \h8e, \h94, \h9b, \h1e, \h87, \he9, \hce, \h55, \h28, \hdf,
  \h8c, \ha1, \h89, \h0d, \hbf, \he6, \h42, \h68, \h41, \h99, \h2d, \h0f, \hb0, \h54, \hbb, \h16
>>

rsbox == <<
  \h52, \h09, \h6a, \hd5, \h30, \h36, \ha5, \h38, \hbf, \h40, \ha3, \h9e, \h81, \hf3, \hd7, \hfb,
  \h7c, \he3, \h39, \h82, \h9b, \h2f, \hff, \h87, \h34, \h8e, \h43, \h44, \hc4, \hde, \he9, \hcb,
  \h54, \h7b, \h94, \h32, \ha6, \hc2, \h23, \h3d, \hee, \h4c, \h95, \h0b, \h42, \hfa, \hc3, \h4e,
  \h08, \h2e, \ha1, \h66, \h28, \hd9, \h24, \hb2, \h76, \h5b, \ha2, \h49, \h6d, \h8b, \hd1, \h25,
  \h72, \hf8, \hf6, \h64, \h86, \h68, \h98, \h16, \hd4, \ha4, \h5c, \hcc, \h5d, \h65, \hb6, \h92,
  \h6c, \h70, \h48, \h50, \hfd, \hed, \hb9, \hda, \h5e, \h15, \h46, \h57, \ha7, \h8d, \h9d, \h84,
  \h90, \hd8, \hab, \h00, \h8c, \hbc, \hd3, \h0a, \hf7, \he4, \h58, \h05, \hb8, \hb3, \h45, \h06,
  \hd0, \h2c, \h1e, \h8f, \hca, \h3f, \h0f, \h02, \hc1, \haf, \hbd, \h03, \h01, \h13, \h8a, \h6b,
  \h3a, \h91, \h11, \h41, \h4f, \h67, \hdc, \hea, \h97, \hf2, \hcf, \hce, \hf0, \hb4, \he6, \h73,
  \h96, \hac, \h74, \h22, \he7, \had, \h35, \h85, \he2, \hf9, \h37, \he8, \h1c, \h75, \hdf, \h6e,
  \h47, \hf1, \h1a, \h71, \h1d, \h29, \hc5, \h89, \h6f, \hb7, \h62, \h0e, \haa, \h18, \hbe, \h1b,
  \hfc, \h56, \h3e, \h4b, \hc6, \hd2, \h79, \h20, \h9a, \hdb, \hc0, \hfe, \h78, \hcd, \h5a, \hf4,
  \h1f, \hdd, \ha8, \h33, \h88, \h07, \hc7, \h31, \hb1, \h12, \h10, \h59, \h27, \h80, \hec, \h5f,
  \h60, \h51, \h7f, \ha9, \h19, \hb5, \h4a, \h0d, \h2d, \he5, \h7a, \h9f, \h93, \hc9, \h9c, \hef,
  \ha0, \he0, \h3b, \h4d, \hae, \h2a, \hf5, \hb0, \hc8, \heb, \hbb, \h3c, \h83, \h53, \h99, \h61,
  \h17, \h2b, \h04, \h7e, \hba, \h77, \hd6, \h26, \he1, \h69, \h14, \h63, \h55, \h21, \h0c, \h7d
>>

rcon == << \h01, \h02, \h04, \h08, \h10, \h20, \h40, \h80, \h1b, \h36 >>

(* Byte i of an array, indexed from 0 as in C.                            *)
At(s, i) == s[i + 1]

(* A 16-byte block whose byte i is F(i), as the `for (i = 0; i < 16; i++)` *)
(* loops build it.                                                         *)
Bytes16(F(_)) ==
  <<F(0), F(1), F(2), F(3), F(4), F(5), F(6), F(7),
    F(8), F(9), F(10), F(11), F(12), F(13), F(14), F(15)>>

SBox(x) == At(sbox, x)
RSBox(x) == At(rsbox, x)

(* XOR of a sequence of bytes, left to right as C evaluates a ^ b ^ c.    *)
RECURSIVE XorAll(_)
XorAll(s) == IF s = <<>> THEN 0 ELSE XorAll(Front(s)) ^^ Last(s)

(* xtime: (x << 1) ^ (((x >> 7) & 1) * 0x1b), truncated to the uint8_t    *)
(* it returns.                                                             *)
Xtime(x) == ((2 * x) ^^ ((x \div 128) * \h1b)) % 256

SubBytes(s) == Bytes16(LAMBDA i : SBox(At(s, i)))

InvSubBytes(s) == Bytes16(LAMBDA i : RSBox(At(s, i)))

(* shift_rows: state[1] = state[5], state[5] = state[9], ... : row 1     *)
(* rotates left by one, row 2 by two, row 3 right by one.  Byte i of the  *)
(* result is byte ShiftRowsFrom[i] of the state before the step.          *)
ShiftRowsFrom == <<0, 5, 10, 15, 4, 9, 14, 3, 8, 13, 2, 7, 12, 1, 6, 11>>

(* inv_shift_rows: state[13] = state[9], state[9] = state[5], ...         *)
InvShiftRowsFrom == <<0, 13, 10, 7, 4, 1, 14, 11, 8, 5, 2, 15, 12, 9, 6, 3>>

ShiftRows(s) == Bytes16(LAMBDA i : At(s, At(ShiftRowsFrom, i)))

InvShiftRows(s) == Bytes16(LAMBDA i : At(s, At(InvShiftRowsFrom, i)))

(* The four bytes of column c, as the loop's a, b, c, d.                   *)
Column(s, c) == <<At(s, 4 * c), At(s, 4 * c + 1), At(s, 4 * c + 2), At(s, 4 * c + 3)>>

(* mix_columns on one column.                                              *)
MixColumn(v) ==
  LET a == v[1]  b == v[2]  c == v[3]  d == v[4] IN
  << XorAll(<<Xtime(a), Xtime(b), b, c, d>>),
     XorAll(<<a, Xtime(b), Xtime(c), c, d>>),
     XorAll(<<a, b, Xtime(c), Xtime(d), d>>),
     XorAll(<<Xtime(a), a, b, c, Xtime(d)>>) >>

(* inv_mix_columns on one column, with its e .. hhd.                       *)
InvMixColumn(v) ==
  LET a == v[1]  b == v[2]  c == v[3]  d == v[4]
      e == Xtime(a)   f == Xtime(b)   g == Xtime(c)   h == Xtime(d)
      ea == Xtime(e)  fb == Xtime(f)  gc == Xtime(g)  hd == Xtime(h)
      eea == Xtime(ea)  ffb == Xtime(fb)  ggc == Xtime(gc)  hhd == Xtime(hd)
  IN << XorAll(<<eea, eea, a, ffb, b, gc, c, hd, d>>),
        XorAll(<<ea, a, ffb, ffb, b, ggc, c, hd, d>>),
        XorAll(<<ea, a, fb, b, ggc, ggc, c, hhd, d>>),
        XorAll(<<eea, a, fb, b, gc, c, hhd, hhd, d>>) >>

(* Apply a column operation to the four columns of the state.              *)
ByColumns(Op(_), s) ==
  LET cols == <<Op(Column(s, 0)), Op(Column(s, 1)),
               Op(Column(s, 2)), Op(Column(s, 3))>>
  IN Bytes16(LAMBDA i : At(At(cols, i \div 4), i % 4))

MixColumns(s) == ByColumns(MixColumn, s)

InvMixColumns(s) == ByColumns(InvMixColumn, s)

(* add_round_key(state, expanded_key + off).                               *)
AddRoundKey(s, w, off) == Bytes16(LAMBDA i : At(s, i) ^^ At(w, off + i))

(* Mutant of KeyScheduleWord: the extra substitution tested as           *)
(* key_size > 16, so that AES-192 keys get it too.                         *)
KeyScheduleWordSubAt16(w, i, ks) ==
  LET temp == <<At(w, i - 4), At(w, i - 3), At(w, i - 2), At(w, i - 1)>>
      t == CASE i % ks = 0 ->
                  <<SBox(temp[2]) ^^ rcon[i \div ks], SBox(temp[3]),
                    SBox(temp[4]), SBox(temp[1])>>
             [] ks > 16 /\ i % ks = 16 ->
                  <<SBox(temp[1]), SBox(temp[2]), SBox(temp[3]), SBox(temp[4])>>
             [] OTHER -> temp
  IN <<At(w, i - ks) ^^ t[1], At(w, i - ks + 1) ^^ t[2],
       At(w, i - ks + 2) ^^ t[3], At(w, i - ks + 3) ^^ t[4]>>

(* The word expand_key's while loop writes at i .. i+3: the previous word, *)
(* rotated, substituted and XORed with rcon at a multiple of key_size,     *)
(* substituted only at key_size + 16 for keys over 24 bytes, then XOR the  *)
(* word key_size bytes back.  w is expanded_key[0 .. i-1].                 *)
KeyScheduleWord(w, i, ks) ==
  LET temp == <<At(w, i - 4), At(w, i - 3), At(w, i - 2), At(w, i - 1)>>
      t == CASE i % ks = 0 ->
                  <<SBox(temp[2]) ^^ rcon[i \div ks], SBox(temp[3]),
                    SBox(temp[4]), SBox(temp[1])>>
             [] ks > 24 /\ i % ks = 16 ->
                  <<SBox(temp[1]), SBox(temp[2]), SBox(temp[3]), SBox(temp[4])>>
             [] OTHER -> temp
  IN <<At(w, i - ks) ^^ t[1], At(w, i - ks + 1) ^^ t[2],
       At(w, i - ks + 2) ^^ t[3], At(w, i - ks + 3) ^^ t[4]>>

RECURSIVE ExpandFrom(_, _, _, _)
ExpandFrom(w, i, ks, rounds) ==
  IF i >= 16 * (rounds + 1) THEN w
  ELSE ExpandFrom(w \o KeyScheduleWord(w, i, ks), i + 4, ks, rounds)

(* expand_key: the key itself, then the loop from i = key_size.           *)
ExpandKey(key, ks, rounds) == ExpandFrom(key, ks, ks, rounds)

(* The switch of aes_init: the round count of each key size.              *)
Rounds == (AES_128 :> 10) @@ (AES_192 :> 12) @@ (AES_256 :> 14)

(* Len(next) is always 16: testing it makes TLC evaluate each round's     *)
(* state before the next round reads it.                                   *)
RECURSIVE EncryptRounds(_, _, _)
EncryptRounds(ctx, s, round) ==
  IF round >= ctx.rounds THEN s
  ELSE LET next == AddRoundKey(MixColumns(ShiftRows(SubBytes(s))),
                               ctx.w, round * 16)
       IN IF Len(next) = AES_BLOCK_SIZE
            THEN EncryptRounds(ctx, next, round + 1) ELSE next

(* aes_encrypt_block: round key 0, rounds 1 .. rounds-1, the last round   *)
(* without mix_columns.                                                    *)
AesEncryptBlock(ctx, in) ==
  LET s == EncryptRounds(ctx, AddRoundKey(in, ctx.w, 0), 1)
  IN AddRoundKey(ShiftRows(SubBytes(s)), ctx.w, ctx.rounds * 16)

RECURSIVE DecryptRounds(_, _, _)
DecryptRounds(ctx, s, round) ==
  IF round <= 0 THEN s
  ELSE LET next == InvMixColumns(AddRoundKey(InvSubBytes(InvShiftRows(s)),
                                             ctx.w, round * 16))
       IN IF Len(next) = AES_BLOCK_SIZE
            THEN DecryptRounds(ctx, next, round - 1) ELSE next

(* aes_decrypt_block: the last round key, rounds rounds-1 .. 1, then      *)
(* round key 0.                                                            *)
AesDecryptBlock(ctx, in) ==
  LET s == DecryptRounds(ctx, AddRoundKey(in, ctx.w, ctx.rounds * 16),
                         ctx.rounds - 1)
  IN AddRoundKey(InvSubBytes(InvShiftRows(s)), ctx.w, 0)

XorBlock(x, y) == Bytes16(LAMBDA j : At(x, j) ^^ At(y, j))

(* The block loop of aes_encrypt_cbc: each plaintext block XOR iv_copy is *)
(* encrypted, and iv_copy becomes that ciphertext block.                  *)
(* Mutant of EncryptCbcFrom: iv_copy becomes the plaintext block, as in  *)
(* the decrypt loop.                                                       *)
RECURSIVE EncryptCbcFromPlainChain(_, _, _)
EncryptCbcFromPlainChain(ctx, iv, ps) ==
  IF ps = <<>> THEN <<>>
  ELSE LET c == AesEncryptBlock(ctx, XorBlock(Head(ps), iv))
       IN <<c>> \o EncryptCbcFromPlainChain(ctx, Head(ps), Tail(ps))

RECURSIVE EncryptCbcFrom(_, _, _)
EncryptCbcFrom(ctx, iv, ps) ==
  IF ps = <<>> THEN <<>>
  ELSE LET c == AesEncryptBlock(ctx, XorBlock(Head(ps), iv))
       IN <<c>> \o EncryptCbcFrom(ctx, c, Tail(ps))

(* The block loop of aes_decrypt_cbc: each block is decrypted and XORed   *)
(* with iv_copy, and iv_copy becomes that input block.                    *)
RECURSIVE DecryptCbcFrom(_, _, _)
DecryptCbcFrom(ctx, iv, cs) ==
  IF cs = <<>> THEN <<>>
  ELSE <<XorBlock(AesDecryptBlock(ctx, Head(cs)), iv)>>
         \o DecryptCbcFrom(ctx, Head(cs), Tail(cs))
-----------------------------------------------------------------------------
(* The length argument of a CBC call over the blocks m: the whole buffer, *)
(* or one byte short of it.                                                *)
CbcLengths(m) == {AES_BLOCK_SIZE * Len(m), AES_BLOCK_SIZE * Len(m) - 1}

Call(op, iv, in, out, ret) ==
  [op |-> op, iv |-> iv, in |-> in, out |-> out, ret |-> ret]

AesInitState ==
  /\ aes_ctx = NoCtx
  /\ aes_key = <<>>
  /\ aes_last = Call("none", <<>>, <<>>, <<>>, 0)

(* aes_init(ctx, Keys[n], n): -2 for a size the switch does not know,     *)
(* else the round count and the expanded key.                              *)
AesInit(n) ==
  IF n \in DOMAIN Rounds
    THEN /\ aes_ctx' = [rounds |-> Rounds[n],
                        w |-> ExpandKey(Keys[n], n, Rounds[n])]
         /\ aes_key' = Keys[n]
         /\ aes_last' = Call("init", <<>>, <<>>, <<>>, 0)
    ELSE /\ aes_last' = Call("init", <<>>, <<>>, <<>>, -2)
         /\ UNCHANGED <<aes_ctx, aes_key>>

(* aes_encrypt_block on an initialised context.                            *)
AesEncryptBlockOp(p) ==
  /\ aes_ctx # NoCtx
  /\ aes_last' = Call("encrypt", <<>>, <<p>>, <<AesEncryptBlock(aes_ctx, p)>>, 0)
  /\ UNCHANGED <<aes_ctx, aes_key>>

(* aes_decrypt_block on an initialised context.                            *)
AesDecryptBlockOp(c) ==
  /\ aes_ctx # NoCtx
  /\ aes_last' = Call("decrypt", <<>>, <<c>>, <<AesDecryptBlock(aes_ctx, c)>>, 0)
  /\ UNCHANGED <<aes_ctx, aes_key>>

(* aes_encrypt_cbc(ctx, iv, m, out, len): -2 when len is not a multiple  *)
(* of AES_BLOCK_SIZE, out untouched; else the chained blocks.              *)
AesEncryptCbc(iv, m, len) ==
  /\ aes_ctx # NoCtx
  /\ aes_last' = IF len % AES_BLOCK_SIZE # 0
                   THEN Call("encrypt_cbc", iv, m, <<>>, -2)
                   ELSE Call("encrypt_cbc", iv, m, EncryptCbcFrom(aes_ctx, iv, m), 0)
  /\ UNCHANGED <<aes_ctx, aes_key>>

(* aes_decrypt_cbc(ctx, iv, m, out, len), likewise.                        *)
AesDecryptCbc(iv, m, len) ==
  /\ aes_ctx # NoCtx
  /\ aes_last' = IF len % AES_BLOCK_SIZE # 0
                   THEN Call("decrypt_cbc", iv, m, <<>>, -2)
                   ELSE Call("decrypt_cbc", iv, m, DecryptCbcFrom(aes_ctx, iv, m), 0)
  /\ UNCHANGED <<aes_ctx, aes_key>>

AesNext ==
  \/ \E n \in KeySizes : AesInit(n)
  \/ \E p \in Plains : AesEncryptBlockOp(p)
  \/ \E c \in Plains : AesDecryptBlockOp(c)
  \/ \E iv \in Ivs, m \in Messages : \E len \in CbcLengths(m) :
       AesEncryptCbc(iv, m, len)
  \/ \E iv \in Ivs, m \in Messages : \E len \in CbcLengths(m) :
       AesDecryptCbc(iv, m, len)

AesSpec == AesInitState /\ [][AesNext]_aesVars

-----------------------------------------------------------------------------
Byte == 0 .. 255

IsBlock(b) == b \in Seq(Byte) /\ Len(b) = AES_BLOCK_SIZE

AesTypeOK ==
  /\ aes_ctx.rounds \in {0, 10, 12, 14}
  /\ aes_ctx.w \in Seq(Byte)
  /\ aes_last.op \in {"none", "init", "encrypt", "decrypt",
                      "encrypt_cbc", "decrypt_cbc"}
  /\ aes_last.ret \in {0, -2}
  /\ \A i \in DOMAIN aes_last.out : IsBlock(aes_last.out[i])

(* FIPS-197 appendix C: the key 00 01 .. (n-1), the plaintext 00 11 .. ff *)
(* and the ciphertext for each key length.                                *)
FipsKey(n) == [k \in 1 .. n |-> k - 1]
FipsPlain == Bytes16(LAMBDA i : 17 * i)
FipsCipher ==
  (16 :> (<<\h69, \hc4, \he0, \hd8, \h6a, \h7b, \h04, \h30,
                   \hd8, \hcd, \hb7, \h80, \h70, \hb4, \hc5, \h5a>>))
  @@ (24 :> (<<\hdd, \ha9, \h7c, \ha4, \h86, \h4c, \hdf, \he0,
                      \h6e, \haf, \h70, \ha0, \hec, \h0d, \h71, \h91>>))
  @@ (32 :> (<<\h8e, \ha2, \hb7, \hca, \h51, \h67, \h45, \hbf,
                      \hea, \hfc, \h49, \h90, \h4b, \h49, \h60, \h89>>))

(* aes_encrypt_block, after aes_init with a FIPS-197 key of 16, 24 or 32  *)
(* bytes, turns the FIPS-197 plaintext into the published ciphertext: the *)
(* key schedule (rcon, the extra substitution of 256-bit keys), the round *)
(* count and every round step agree with the standard.                    *)
AesKnownAnswer ==
  LET n == Len(aes_key) IN
  (aes_last.op = "encrypt" /\ aes_last.in = <<FipsPlain>>
     /\ n \in DOMAIN FipsCipher /\ aes_key = FipsKey(n))
    => aes_last.out = <<FipsCipher[n]>>

(* The CBC functions chain blocks as SP 800-38A defines it: ciphertext    *)
(* block i is E(P_i XOR C_(i-1)), plaintext block i is D(C_i) XOR         *)
(* C_(i-1), with C_0 the IV, for every input whose length is a multiple of *)
(* the block size.                                                         *)
CbcIsChained ==
  LET m == aes_last.in
      o == aes_last.out
      prev(i) == IF i = 1 THEN aes_last.iv ELSE m[i - 1]
      prevOut(i) == IF i = 1 THEN aes_last.iv ELSE o[i - 1]
  IN /\ aes_last.op = "encrypt_cbc" /\ aes_last.ret = 0 =>
          /\ Len(o) = Len(m)
          /\ \A i \in 1 .. Len(m) :
               o[i] = AesEncryptBlock(aes_ctx, XorBlock(m[i], prevOut(i)))
     /\ aes_last.op = "decrypt_cbc" /\ aes_last.ret = 0 =>
          /\ Len(o) = Len(m)
          /\ \A i \in 1 .. Len(m) :
               o[i] = XorBlock(AesDecryptBlock(aes_ctx, m[i]), prev(i))
=============================================================================
