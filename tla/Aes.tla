------------------------------ MODULE Aes ------------------------------
(***************************************************************************)
(* The block cipher and its modes of operation (aes.c, the same file in    *)
(* the two NFs).  A BYTE is a number below 256, a WORD the sequence of its *)
(* four bytes with the most significant one first, a block the sequence of *)
(* its 16 bytes: state[r][c] of the code is element 4 c + r + 1.           *)
(***************************************************************************)
EXTENDS Naturals, Sequences

AES_BLOCK_SIZE == 16

aes_sbox == <<
  99, 124, 119, 123, 242, 107, 111, 197, 48, 1, 103, 43, 254, 215, 171, 118,
  202, 130, 201, 125, 250, 89, 71, 240, 173, 212, 162, 175, 156, 164, 114, 192,
  183, 253, 147, 38, 54, 63, 247, 204, 52, 165, 229, 241, 113, 216, 49, 21,
  4, 199, 35, 195, 24, 150, 5, 154, 7, 18, 128, 226, 235, 39, 178, 117,
  9, 131, 44, 26, 27, 110, 90, 160, 82, 59, 214, 179, 41, 227, 47, 132,
  83, 209, 0, 237, 32, 252, 177, 91, 106, 203, 190, 57, 74, 76, 88, 207,
  208, 239, 170, 251, 67, 77, 51, 133, 69, 249, 2, 127, 80, 60, 159, 168,
  81, 163, 64, 143, 146, 157, 56, 245, 188, 182, 218, 33, 16, 255, 243, 210,
  205, 12, 19, 236, 95, 151, 68, 23, 196, 167, 126, 61, 100, 93, 25, 115,
  96, 129, 79, 220, 34, 42, 144, 136, 70, 238, 184, 20, 222, 94, 11, 219,
  224, 50, 58, 10, 73, 6, 36, 92, 194, 211, 172, 98, 145, 149, 228, 121,
  231, 200, 55, 109, 141, 213, 78, 169, 108, 86, 244, 234, 101, 122, 174, 8,
  186, 120, 37, 46, 28, 166, 180, 198, 232, 221, 116, 31, 75, 189, 139, 138,
  112, 62, 181, 102, 72, 3, 246, 14, 97, 53, 87, 185, 134, 193, 29, 158,
  225, 248, 152, 17, 105, 217, 142, 148, 155, 30, 135, 233, 206, 85, 40, 223,
  140, 161, 137, 13, 191, 230, 66, 104, 65, 153, 45, 15, 176, 84, 187, 22 >>

aes_invsbox == <<
  82, 9, 106, 213, 48, 54, 165, 56, 191, 64, 163, 158, 129, 243, 215, 251,
  124, 227, 57, 130, 155, 47, 255, 135, 52, 142, 67, 68, 196, 222, 233, 203,
  84, 123, 148, 50, 166, 194, 35, 61, 238, 76, 149, 11, 66, 250, 195, 78,
  8, 46, 161, 102, 40, 217, 36, 178, 118, 91, 162, 73, 109, 139, 209, 37,
  114, 248, 246, 100, 134, 104, 152, 22, 212, 164, 92, 204, 93, 101, 182, 146,
  108, 112, 72, 80, 253, 237, 185, 218, 94, 21, 70, 87, 167, 141, 157, 132,
  144, 216, 171, 0, 140, 188, 211, 10, 247, 228, 88, 5, 184, 179, 69, 6,
  208, 44, 30, 143, 202, 63, 15, 2, 193, 175, 189, 3, 1, 19, 138, 107,
  58, 145, 17, 65, 79, 103, 220, 234, 151, 242, 207, 206, 240, 180, 230, 115,
  150, 172, 116, 34, 231, 173, 53, 133, 226, 249, 55, 232, 28, 117, 223, 110,
  71, 241, 26, 113, 29, 41, 197, 137, 111, 183, 98, 14, 170, 24, 190, 27,
  252, 86, 62, 75, 198, 210, 121, 32, 154, 219, 192, 254, 120, 205, 90, 244,
  31, 221, 168, 51, 136, 7, 199, 49, 177, 18, 16, 89, 39, 128, 236, 95,
  96, 81, 127, 169, 25, 181, 74, 13, 45, 229, 122, 159, 147, 201, 156, 239,
  160, 224, 59, 77, 174, 42, 245, 176, 200, 235, 187, 60, 131, 83, 153, 97,
  23, 43, 4, 126, 186, 119, 214, 38, 225, 105, 20, 99, 85, 33, 12, 125 >>

\* ^ on two bytes, nibble by nibble.
Nibble == 0..15
XorNibble ==
  [a \in Nibble, b \in Nibble |->
     LET Bit(x, k) == (x \div 2^k) % 2
         Differ(k) == IF Bit(a, k) = Bit(b, k) THEN 0 ELSE 2^k
     IN  Differ(0) + Differ(1) + Differ(2) + Differ(3)]
Xor(a, b) == 16 * XorNibble[a \div 16, b \div 16] + XorNibble[a % 16, b % 16]

\* The table of products in GF(2^8), stated by the rule it tabulates: doubling
\* is a shift, less the polynomial 0x11b when it overflows a byte.
Double(b) == IF b < 128 THEN 2 * b ELSE Xor(2 * b - 256, 27)
gf_mul ==
  [b \in 0..255 |->
     LET two == Double(b)  four == Double(two)  eight == Double(four)
     IN  << two, Xor(two, b), Xor(eight, b), Xor(Xor(eight, two), b),
            Xor(Xor(eight, four), b), Xor(Xor(eight, four), two) >>]

Least(a, b) == IF a < b THEN a ELSE b

\* The tuple f(1), ..., f(n), evaluated once.
Tuple(n, f(_)) == SubSeq([i \in 1..n |-> f(i)], 1, n)

\* xor_buf: the first Len(out) bytes of in are used.
xor_buf(in, out) == Tuple(Len(out), LAMBDA i : Xor(in[i], out[i]))

(***************************************************************************)
(* Key expansion.                                                          *)
(***************************************************************************)
SubWord(word) == [i \in 1..4 |-> aes_sbox[word[i] + 1]]

\* Mutant: the word is rotated the other way.
RotatedBack(word) == << word[4], word[1], word[2], word[3] >>

KE_ROTWORD(word) == << word[2], word[3], word[4], word[1] >>

Nk(keysize) == keysize \div 32
Nr(keysize) == Nk(keysize) + 6

Rcon == << 1, 2, 4, 8, 16, 32, 64, 128, 27, 54, 108, 216, 171, 77, 154 >>

\* The first idx words of the schedule; w[idx] of the code is element idx + 1.
aes_key_setup(key, keysize) ==
  LET nk == Nk(keysize)
      w[idx \in nk..(4 * (Nr(keysize) + 1))] ==
        IF idx = nk THEN [i \in 1..nk |-> SubSeq(key, 4 * i - 3, 4 * i)]
        ELSE LET prev == w[idx - 1]
                 last == prev[idx - 1]
                 temp == IF (idx - 1) % nk = 0
                         THEN xor_buf(<< Rcon[((idx - 2) \div nk) + 1], 0, 0, 0 >>,
                                      SubWord(KE_ROTWORD(last)))
                         ELSE IF nk > 6 /\ (idx - 1) % nk = 4 THEN SubWord(last) ELSE last
             IN  Append(prev, xor_buf(prev[idx - nk], temp))
  IN  w[4 * (Nr(keysize) + 1)]

(***************************************************************************)
(* The four steps of a round and their inverses.                           *)
(***************************************************************************)
AddRoundKey(state, w, round) ==
  Tuple(16, LAMBDA i : Xor(state[i], w[4 * round + ((i - 1) \div 4) + 1][((i - 1) % 4) + 1]))

SubBytes(state) == Tuple(16, LAMBDA i : aes_sbox[state[i] + 1])
InvSubBytes(state) == Tuple(16, LAMBDA i : aes_invsbox[state[i] + 1])

\* Row r, column c of a state.
Cell(state, r, c) == state[4 * (c % 4) + r + 1]

ShiftRows(state) ==
  Tuple(16, LAMBDA i : LET r == (i - 1) % 4 IN Cell(state, r, ((i - 1) \div 4) + r))
InvShiftRows(state) ==
  Tuple(16, LAMBDA i : LET r == (i - 1) % 4 IN Cell(state, r, ((i - 1) \div 4) + 4 - r))

\* The product of a byte by the coefficient a step uses: 0 stands for "by one",
\* k for column k - 1 of gf_mul.
Times(b, k) == IF k = 0 THEN b ELSE gf_mul[b][k]

\* Row r of a column multiplied by the circulant matrix with first row coef.
MixCell(state, r, c, coef) ==
  LET Term(j) == Times(Cell(state, j, c), coef[((4 + j - r) % 4) + 1])
  IN  Xor(Xor(Term(0), Term(1)), Xor(Term(2), Term(3)))

MixColumns(state) ==
  Tuple(16, LAMBDA i : MixCell(state, (i - 1) % 4, (i - 1) \div 4, << 1, 2, 0, 0 >>))
InvMixColumns(state) ==
  Tuple(16, LAMBDA i : MixCell(state, (i - 1) % 4, (i - 1) \div 4, << 6, 4, 5, 3 >>))

(***************************************************************************)
(* One block: the round key is added first; the last round of encryption   *)
(* mixes no columns, and decryption takes the round keys backwards.        *)
(***************************************************************************)
EncryptRound(state, key, r, nr) ==
  LET s == ShiftRows(SubBytes(state))
  IN  AddRoundKey(IF r < nr THEN MixColumns(s) ELSE s, key, r)

DecryptRound(state, key, r) ==
  LET s == AddRoundKey(InvSubBytes(InvShiftRows(state)), key, r)
  IN  IF r > 0 THEN InvMixColumns(s) ELSE s

(***************************************************************************)
(* The counter of CTR.                                                     *)
(***************************************************************************)
\* The big-endian counter in the last counter_size bytes; a size of less than
\* one leaves the block alone.
increment_iv(iv, counter_size) ==
  LET Wraps(idx) == \A i \in (idx + 1)..AES_BLOCK_SIZE : iv[i] = 255
      Counts(idx) == idx > AES_BLOCK_SIZE - counter_size
  IN  [i \in 1..AES_BLOCK_SIZE |->
         IF Counts(i) /\ Wraps(i) THEN (iv[i] + 1) % 256 ELSE iv[i]]

(***************************************************************************)
(* CCM: the blocks its MAC is computed over, and its counter.              *)
(***************************************************************************)
Zeros(n) == [i \in 1..n |-> 0]

ccm_prepare_first_ctr_blk(nonce, payload_len_store_size) ==
  << (payload_len_store_size - 1) % 8 >> \o nonce \o Zeros(15 - Len(nonce))

\* buf[14] and buf[15] are written last: they hold the length of the payload
\* whatever the nonce leaves there.
ccm_prepare_first_format_blk(assoc_len, payload_len, payload_len_store_size, mac_len, nonce) ==
  LET flags == 8 * (((mac_len - 2) \div 2) % 8) + ((payload_len_store_size - 1) % 8)
                 + IF assoc_len > 0 THEN 64 ELSE 0
      blk == << flags >> \o nonce \o Zeros(15 - Len(nonce))
  IN  [blk EXCEPT ![15] = (payload_len \div 256) % 256, ![16] = payload_len % 256]

\* A block of padding is appended also when nothing is missing.
ccm_format_assoc_data(buf, assoc) ==
  LET filled == buf \o << (Len(assoc) \div 256) % 256, Len(assoc) % 256 >> \o assoc
  IN  filled \o Zeros(AES_BLOCK_SIZE - (Len(filled) % AES_BLOCK_SIZE))

ccm_format_payload_data(buf, payload) ==
  LET filled == buf \o payload
      pad == Len(filled) % AES_BLOCK_SIZE
  IN  filled \o Zeros(IF pad = 0 THEN 0 ELSE AES_BLOCK_SIZE - pad)

\* The buffer the MAC is computed over.
Formatted(payload, assoc, nonce, mac_len) ==
  ccm_format_payload_data(
    ccm_format_assoc_data(
      ccm_prepare_first_format_blk(Len(assoc), Len(payload), AES_BLOCK_SIZE - 1 - Len(nonce),
                                   mac_len, nonce), assoc), payload)

\* The counting part is taken to be 15 - mac_len bytes; for a mac_len of 16 the
\* counter of the payload is not raised at all.
FirstCounter(counter, mac_len) ==
  IF mac_len >= AES_BLOCK_SIZE - 1 THEN counter
  ELSE increment_iv(counter, AES_BLOCK_SIZE - 1 - mac_len)

CcmRefused(assoc, nonce, mac_len) ==
  \/ mac_len \notin {4, 6, 8, 10, 12, 14, 16}
  \/ Len(nonce) < 7 \/ Len(nonce) > 13
  \/ Len(assoc) > 32768
=============================================================================
