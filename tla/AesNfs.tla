------------------------------ MODULE AesNfs ------------------------------
(***************************************************************************)
(* The two AES NFs on one chain (aesencrypt.c, aesdecrypt.c), and the      *)
(* modes of operation of aes.c the NFs do not use beside CTR, which they   *)
(* do.  A job is one text that is sealed, perhaps changed on its way, and  *)
(* opened again; each direction is a list of tasks, a task runs the cipher *)
(* over its input block by block, a block takes one step per round.        *)
(*                                                                         *)
(* The NFs have one key and one IV, both compiled into them.  A packet     *)
(* without a UDP header passes them unchanged.                             *)
(***************************************************************************)
EXTENDS Aes

CONSTANTS Jobs      \* [mode, keysize, len, assoc, nonce, mac] : lengths in bytes

VARIABLES
  job, text, auth,     \* the job, its text as it travels, *mac_auth
  stage,               \* started, plain, sealing, sealed, changed, opening, opened
  key_schedule,
  results,             \* outputs of the tasks of this direction that are done
  run,                 \* the task that runs: [out, iv] (output so far, iv_buf)
  blk                  \* the block in the cipher: [state, round], or Idle

vars == << job, text, auth, stage, key_schedule, results, run, blk >>

Idle == [state |-> << >>, round |-> 0]

\* The key and the IV of both NFs.
NfKey == << 96, 61, 235, 16, 21, 202, 113, 190, 43, 115, 174, 240, 133, 125, 119, 129,
            31, 53, 44, 7, 59, 97, 8, 215, 45, 152, 16, 163, 9, 20, 223, 244 >>
NfIv == [i \in 1..16 |-> i - 1]

\* The texts, keys and nonces of the other modes (those of FIPS 197, C.1 to C.3).
CipherKey(j) == IF j.mode \in {"udp", "other"} THEN NfKey
                ELSE [i \in 1..(j.keysize \div 8) |-> i - 1]
Plain(j) == [i \in 1..j.len |-> (17 * (i - 1)) % 256]
Assoc(j) == [i \in 1..j.assoc |-> i]
Nonce(j) == [i \in 1..j.nonce |-> 16 + i]

(***************************************************************************)
(* The tasks: op is how the cipher is used on each block of in.            *)
(***************************************************************************)
Task(op, in, iv) == [op |-> op, in |-> in, iv |-> iv]

\* packet_handler of the two NFs: the payload behind the UDP header, in place.
EncryptHandler(data) == << Task("ctr", data, NfIv) >>
DecryptHandler(data) == << Task("ctr", data, NfIv) >>

\* aes_encrypt_cbc, aes_decrypt_cbc: a text that is not whole blocks is refused,
\* and an empty one has no blocks.
Whole(data) == data # << >> /\ Len(data) % AES_BLOCK_SIZE = 0
CbcEncrypt(data) == IF Whole(data) THEN << Task("cbc", data, NfIv) >> ELSE << >>
CbcDecrypt(data) == IF Whole(data) THEN << Task("unc", data, NfIv) >> ELSE << >>

Counter(j) == ccm_prepare_first_ctr_blk(Nonce(j), AES_BLOCK_SIZE - 1 - j.nonce)
MacTask(j, data) ==
  Task("mac", Formatted(data, Assoc(j), Nonce(j), j.mac), Zeros(AES_BLOCK_SIZE))

\* The third task works on what an earlier one has put out.
CcmEncrypt(j, payload, done) ==
  IF CcmRefused(Assoc(j), Nonce(j), j.mac) THEN << >>
  ELSE << MacTask(j, payload),
          Task("ctr", payload, FirstCounter(Counter(j), j.mac)),
          Task("ctr", IF done = << >> THEN << >> ELSE SubSeq(done[1], 1, j.mac), Counter(j)) >>

CcmDecrypt(j, ciphertext, done) ==
  LET n == Len(ciphertext) - j.mac
  IN  IF Len(ciphertext) <= j.mac THEN << >>
      ELSE << Task("ctr", SubSeq(ciphertext, 1, n), FirstCounter(Counter(j), j.mac)),
              Task("ctr", SubSeq(ciphertext, n + 1, Len(ciphertext)), Counter(j)),
              MacTask(j, IF done = << >> THEN << >> ELSE done[1]) >>

Tasks ==
  IF stage = "sealing"
  THEN CASE job.mode = "udp" -> EncryptHandler(text)
         [] job.mode = "other" -> << >>
         [] job.mode = "block" -> << Task("cbc", text, Zeros(AES_BLOCK_SIZE)) >>
         [] job.mode = "cbc" -> CbcEncrypt(text)
         [] job.mode = "ccm" -> CcmEncrypt(job, text, results)
  ELSE CASE job.mode = "udp" -> DecryptHandler(text)
         [] job.mode = "other" -> << >>
         [] job.mode = "block" -> << Task("unc", text, Zeros(AES_BLOCK_SIZE)) >>
         [] job.mode = "cbc" -> CbcDecrypt(text)
         [] job.mode = "ccm" -> CcmDecrypt(job, text, results)

Current == Tasks[Len(results) + 1]

Init ==
  /\ job \in Jobs
  /\ text = Plain(job)
  /\ auth = TRUE
  /\ stage = "started"
  /\ key_schedule = << >>
  /\ results = << >>
  /\ run = [out |-> << >>, iv |-> << >>]
  /\ blk = Idle

\* main: the schedule is set up once, before the first packet; CCM sets up its own.
SetupKey ==
  /\ stage = "started"
  /\ key_schedule' = aes_key_setup(CipherKey(job), job.keysize)
  /\ stage' = "plain"
  /\ UNCHANGED << job, text, auth, results, run, blk >>

Begin ==
  /\ \/ stage = "plain" /\ stage' = "sealing"
     \/ stage \in {"sealed", "changed"} /\ stage' = "opening"
  /\ auth' = (stage # "changed")
  /\ results' = << >>
  /\ UNCHANGED << job, text, key_schedule, run, blk >>

\* One byte of a sealed text changes on its way.
Tamper(i) ==
  /\ stage = "sealed" /\ job.mode = "ccm"
  /\ text' = [text EXCEPT ![i] = (@ + 1) % 256]
  /\ stage' = "changed"
  /\ UNCHANGED << job, auth, key_schedule, results, run, blk >>

Running == stage \in {"sealing", "opening"} /\ Len(results) < Len(Tasks)

\* The block of the input that is next, shorter than a block only for CTR.
Chunk ==
  LET from == Len(run.out)
      todo == SubSeq(Current.in, from + 1, Len(Current.in))
  IN  SubSeq(todo, 1, Least(AES_BLOCK_SIZE, Len(todo)))

Iv == IF run.out = << >> THEN Current.iv ELSE run.iv

\* A block enters the cipher: CTR enciphers the counter, CBC the text.
StartBlock ==
  /\ Running /\ blk = Idle
  /\ LET in == CASE Current.op = "ctr" -> Iv
                 [] Current.op \in {"cbc", "mac"} -> xor_buf(Iv, Chunk)
                 [] Current.op = "unc" -> Chunk
         first == IF Current.op = "unc" THEN Nr(job.keysize) ELSE 0
     IN  blk' = [state |-> AddRoundKey(in, key_schedule, first),
                 round |-> IF Current.op = "unc" THEN first - 1 ELSE 1]
  /\ UNCHANGED << job, text, auth, stage, key_schedule, results, run >>

Left == IF Current.op = "unc" THEN blk.round >= 0 ELSE blk.round <= Nr(job.keysize)

aes_encrypt ==
  /\ Running /\ blk # Idle /\ Left /\ Current.op # "unc"
  /\ blk' = [state |-> EncryptRound(blk.state, key_schedule, blk.round, Nr(job.keysize)),
             round |-> blk.round + 1]
  /\ UNCHANGED << job, text, auth, stage, key_schedule, results, run >>

aes_decrypt ==
  /\ Running /\ blk # Idle /\ Left /\ Current.op = "unc"
  /\ blk' = [state |-> DecryptRound(blk.state, key_schedule, blk.round),
             round |-> blk.round - 1]
  /\ UNCHANGED << job, text, auth, stage, key_schedule, results, run >>

\* What the mode makes of a block that leaves the cipher.
Output == CASE Current.op = "ctr" -> xor_buf(blk.state, Chunk)
            [] Current.op \in {"cbc", "mac"} -> blk.state
            [] Current.op = "unc" -> xor_buf(Iv, blk.state)
NextIv == CASE Current.op = "ctr" -> increment_iv(Iv, AES_BLOCK_SIZE)
            [] Current.op \in {"cbc", "mac"} -> blk.state
            [] Current.op = "unc" -> Chunk

EndBlock ==
  /\ Running /\ blk # Idle /\ ~Left
  /\ blk' = Idle
  /\ LET out == run.out \o Output
     IN  IF Len(out) = Len(Current.in)
         THEN /\ results' = Append(results, IF Current.op = "mac" THEN Output ELSE out)
              /\ run' = [out |-> << >>, iv |-> << >>]
         ELSE run' = [out |-> out, iv |-> NextIv] /\ UNCHANGED results
  /\ UNCHANGED << job, text, auth, stage, key_schedule >>

\* All tasks are done (or there are none): the text is replaced by their output.
\* Opening a CCM text compares the MACs and zeroes a text that is not authentic.
Finish ==
  /\ stage \in {"sealing", "opening"} /\ Len(results) = Len(Tasks)
  /\ IF job.mode = "ccm" /\ stage = "opening"
     THEN LET same == results[2] = SubSeq(results[3], 1, job.mac)
          IN  /\ auth' = same
              /\ text' = IF same THEN results[1] ELSE Zeros(Len(results[1]))
     ELSE /\ text' = CASE job.mode = "ccm" -> results[2] \o results[3]
                       [] job.mode = "other" -> text
                       [] OTHER -> IF Tasks = << >> THEN << >> ELSE results[1]
          /\ UNCHANGED auth
  /\ stage' = IF stage = "sealing" THEN "sealed" ELSE IF auth THEN "opened" ELSE "rejected"
  /\ UNCHANGED << job, key_schedule, results, run, blk >>

Next ==
  \/ SetupKey \/ Begin \/ StartBlock \/ aes_encrypt \/ aes_decrypt \/ EndBlock \/ Finish
  \/ \E i \in {1, Len(text)} \ {0} : Tamper(i)

Spec == Init /\ [][Next]_vars

-----------------------------------------------------------------------------
\* FIPS 197, appendix C: the ciphertexts of the example blocks.
Vector ==
  [k \in {128, 192, 256} |->
     CASE k = 128 -> << 105, 196, 224, 216, 106, 123, 4, 48, 216, 205, 183, 128, 112, 180, 197, 90 >>
       [] k = 192 -> << 221, 169, 124, 164, 134, 76, 223, 224, 110, 175, 112, 160, 236, 13, 113, 145 >>
       [] k = 256 -> << 142, 162, 183, 202, 81, 103, 69, 191, 234, 252, 73, 144, 75, 73, 96, 137 >>]

\* The key schedule and the rounds of aes.c compute the function the standard
\* defines, for the three key sizes.
KnownAnswers ==
  stage = "sealed" /\ job.mode = "block" => text = Vector[job.keysize]

\* What the one NF encrypts the other restores, for every length of the payload,
\* and the other modes of aes.c undo themselves too; a CBC text whose length is
\* not a multiple of the block is refused.
PayloadRestored ==
  stage = "opened" =>
    /\ text = IF job.mode = "cbc" /\ job.len % AES_BLOCK_SIZE # 0 THEN << >> ELSE Plain(job)
    /\ auth

\* A changed byte of the payload or of the MAC is noticed (aes_decrypt_ccm): the
\* text is reported as not authentic and its bytes are not released.
ChangeNoticed ==
  stage = "rejected" => ~auth /\ text = Zeros(job.len)

\* The buffer aes_decrypt_ccm formats the MAC's input into is large enough for the
\* padding of both parts, whatever the lengths.
FormatFits ==
  job.mode = "ccm" /\ stage = "started" =>
    Len(Formatted(Plain(job), Assoc(job), Nonce(job), job.mac))
      <= job.assoc + (job.len + job.mac) + 48
=============================================================================
