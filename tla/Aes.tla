---------------------------------- MODULE Aes -----------------------------------
(***************************************************************************)
(* The AES driver: aes.c, which a client calls once to initialise and then  *)
(* chunk by chunk, and the one-shot functions of modes_of_op.c, under a     *)
(* main that encrypts and then decrypts what it got, as that of the demo.   *)
(* Blocks are symbolic: a set of atoms <<kind, key or number, block>> is    *)
(* their exclusive or, "E" and "D" are the cipher and its inverse.          *)
(***************************************************************************)
EXTENDS Integers, Sequences

CONSTANTS
  Blocks,   \* blocks of the message
  Faults    \* bound: errors the peripheral raises

AesBounds == Blocks \in Nat \ {0} /\ Faults \in Nat

VARIABLES
  cr,       \* CR: EN, MODE, CHMOD and KEYSIZE
  key,      \* the key registers: 0 or the size of the key loaded
  derived,  \* the inverse key schedule is ready
  iv,       \* the IV registers
  phase,    \* "input", "compute" or "output"
  data,     \* the block in the peripheral
  ccf, err, \* ISR.CCF; ISR.RWEIF or KEIF
  faults,
  pc,
  job,      \* the call: mode, key size, direction
  in, out,  \* its buffers, in blocks
  chunk,    \* blocks of the running AES_Process that are left
  result    \* "busy", "SUCCESS" or "ERROR"

peripheral == <<cr, key, derived, iv, phase, data, ccf, err>>
vars == <<cr, key, derived, iv, phase, data, ccf, err, faults, pc, job, in, out, chunk, result>>

Xor(a, b) == (a \ b) \cup (b \ a)

Enc(k, b) == {<<"E", k, b>>}
Dec(k, b) == IF \E a \in b : b = {a} /\ a[1] = "E" /\ a[2] = k
               THEN (CHOOSE a \in b : TRUE)[3] ELSE {<<"D", k, b>>}

Zero      == {}
Plain     == [i \in 1..Blocks |-> {<<"p", i, {}>>}]
Counter(n) == {<<"iv", n, {}>>}
CountUp(b) == Counter((CHOOSE a \in b : TRUE)[2] + 1)

Off == [en |-> FALSE, mode |-> "ENCRYPT", chmod |-> "ECB", size |-> 128]

----------------------------------------------------------------------------
(* The peripheral *)

Transform ==
  LET x == IF derived THEN Dec(key, data) ELSE {<<"J", key, data>>}
  IN  IF cr.mode = "DECRYPT"
        THEN IF cr.chmod = "CBC" THEN Xor(x, iv) ELSE x
        ELSE CASE cr.chmod = "ECB" -> Enc(key, data)
               [] cr.chmod = "CBC" -> Enc(key, Xor(data, iv))
               [] cr.chmod = "CTR" -> Xor(data, Enc(key, iv))

Computes ==
  /\ phase = "compute"
  /\ ccf' = TRUE
  /\ IF cr.mode = "KEYDER"
       THEN /\ derived' = TRUE /\ phase' = "input" /\ cr' = [cr EXCEPT !.en = FALSE]
            /\ UNCHANGED <<iv, data>>
       ELSE /\ phase' = "output" /\ data' = Transform
            /\ iv' = CASE cr.chmod = "ECB" -> iv
                       [] cr.chmod = "CTR" -> CountUp(iv)
                       [] OTHER -> IF cr.mode = "DECRYPT" THEN data ELSE data'
            /\ UNCHANGED <<cr, derived>>
  /\ UNCHANGED <<key, err, faults, pc, job, in, out, chunk, result>>

Fault ==   \* a read, write or key error of the peripheral's own
  /\ faults < Faults /\ cr.en /\ ~err
  /\ faults' = faults + 1
  /\ err' = TRUE
  /\ UNCHANGED <<cr, key, derived, iv, phase, data, ccf, pc, job, in, out, chunk, result>>

----------------------------------------------------------------------------
(* The driver *)

(* IPRST, KEYSIZE, the key and the IV, then CHMOD, MODE and EN              *)
Setup(mode, chmod, ivr) ==
  /\ cr' = [en |-> TRUE, mode |-> mode, chmod |-> chmod, size |-> job.size]
  /\ key' = job.size
  /\ iv' = ivr
  /\ derived' = FALSE /\ data' = Zero /\ ccf' = FALSE /\ err' = FALSE
  /\ phase' = IF mode = "KEYDER" THEN "compute" ELSE "input"

IVOfJob == IF job.chmod = "ECB" THEN Zero ELSE Counter(0)

AES_Encrypt_Init ==
  /\ pc = "init" /\ ((~job.decrypt) \/ job.chmod = "CTR")
  /\ Setup("ENCRYPT", job.chmod, IVOfJob)
  /\ pc' = "process"
  /\ UNCHANGED <<faults, job, in, out, chunk, result>>

(* The block of zeros written while the key is derived is not an error.     *)
AES_Decrypt_Init ==
  /\ pc = "init" /\ job.decrypt /\ job.chmod # "CTR"
  /\ Setup("KEYDER", "ECB", Zero)
  /\ pc' = "derive"
  /\ UNCHANGED <<faults, job, in, out, chunk, result>>

Fails == err' = FALSE /\ pc' = "idle" /\ result' = "ERROR"

CCFKept(next) ==   \* mutant: CCF is not cleared
  IF err THEN Fails /\ UNCHANGED ccf
         ELSE ccf /\ pc' = next /\ UNCHANGED <<ccf, err, result>>

wait_ccf(next) ==
  IF err THEN Fails /\ UNCHANGED ccf
         ELSE ccf /\ ccf' = FALSE /\ pc' = next /\ UNCHANGED <<err, result>>

Derived ==
  /\ pc = "derive"
  /\ wait_ccf("enable")
  /\ UNCHANGED <<cr, key, derived, iv, phase, data, faults, job, in, out, chunk>>

EnableDecryption ==
  /\ pc = "enable" /\ pc' = "process"
  /\ iv' = IVOfJob
  /\ cr' = [en |-> TRUE, mode |-> "DECRYPT", chmod |-> job.chmod, size |-> job.size]
  /\ UNCHANGED <<key, derived, phase, data, ccf, err, faults, job, in, out, chunk, result>>

(* AES_Process on the next chunk; the whole message is done in the end.     *)
AES_Process ==
  /\ pc = "process"
  /\ IF Len(out) = Blocks
       THEN pc' = "idle" /\ result' = "SUCCESS" /\ UNCHANGED chunk
       ELSE pc' = "write" /\ chunk' \in 1 .. Blocks - Len(out) /\ UNCHANGED result
  /\ UNCHANGED <<peripheral, faults, job, in, out>>

write_block ==
  /\ pc = "write" /\ pc' = "wait"
  /\ IF cr.en /\ phase = "input"
       THEN data' = in[Len(out) + 1] /\ phase' = "compute" /\ UNCHANGED err
       ELSE err' = TRUE /\ UNCHANGED <<data, phase>>
  /\ UNCHANGED <<cr, key, derived, iv, ccf, faults, job, in, out, chunk, result>>

WaitOutput ==
  /\ pc = "wait"
  /\ wait_ccf("read")
  /\ UNCHANGED <<cr, key, derived, iv, phase, data, faults, job, in, out, chunk>>

read_block ==
  /\ pc = "read"
  /\ IF phase = "output"
       THEN out' = Append(out, data) /\ phase' = "input" /\ UNCHANGED err
       ELSE out' = Append(out, Zero) /\ err' = TRUE /\ UNCHANGED phase
  /\ chunk' = chunk - 1
  /\ pc' = IF chunk = 1 THEN "process" ELSE "write"
  /\ UNCHANGED <<cr, key, derived, iv, data, ccf, faults, job, in, result>>

(* main: encrypt the message, or decrypt what the last encryption gave      *)
Encrypt ==
  /\ pc = "idle" /\ result = "none"
  /\ job' \in [chmod : {"ECB", "CBC", "CTR"}, size : {128, 256}, decrypt : {FALSE}]
  /\ in' = Plain /\ out' = <<>> /\ result' = "busy" /\ pc' = "init"
  /\ UNCHANGED <<peripheral, faults, chunk>>

Decrypt ==
  /\ pc = "idle" /\ result = "SUCCESS" /\ ~job.decrypt
  /\ job' = [job EXCEPT !.decrypt = TRUE]
  /\ in' = out /\ out' = <<>> /\ result' = "busy" /\ pc' = "init"
  /\ UNCHANGED <<peripheral, faults, chunk>>

(* The next test of main, after both or after an error                      *)
Again ==
  /\ pc = "idle" /\ (result = "ERROR" \/ (result = "SUCCESS" /\ job.decrypt))
  /\ result' = "none" /\ in' = <<>> /\ out' = <<>>
  /\ UNCHANGED <<peripheral, faults, pc, job, chunk>>

----------------------------------------------------------------------------
Init ==
  /\ cr = Off /\ key = 0 /\ derived = FALSE /\ iv = Zero /\ phase = "input"
  /\ data = Zero /\ ccf = FALSE /\ err = FALSE /\ faults = 0
  /\ pc = "idle" /\ job = [chmod |-> "ECB", size |-> 128, decrypt |-> FALSE]
  /\ in = <<>> /\ out = <<>> /\ chunk = 0 /\ result = "none"

Next ==
  \/ Computes \/ Fault
  \/ AES_Encrypt_Init \/ AES_Decrypt_Init \/ Derived \/ EnableDecryption
  \/ AES_Process \/ write_block \/ WaitOutput \/ read_block
  \/ Encrypt \/ Decrypt \/ Again

Spec == Init /\ [][Next]_vars
----------------------------------------------------------------------------
(* SP 800-38A: the blocks of a ciphertext c of the message in each mode.    *)
Previous(c, b) == IF b = 1 THEN Counter(0) ELSE c[b - 1]

CipherBlock(c, chmod, k, b) ==
  CASE chmod = "ECB" -> Enc(k, Plain[b])
    [] chmod = "CBC" -> Enc(k, Xor(Plain[b], Previous(c, b)))
    [] chmod = "CTR" -> Xor(Plain[b], Enc(k, Counter(b - 1)))

IsCiphertext(c, chmod, k) ==
  Len(c) = Blocks /\ \A b \in 1..Blocks : c[b] = CipherBlock(c, chmod, k, b)

(* What a successful call wrote is what the mode says, the ciphertext or    *)
(* the message again, in however many chunks and whatever errors the calls  *)
(* before it met.                                                           *)
CipherIsRight ==
  result = "SUCCESS" => IF job.decrypt THEN out = Plain
                                       ELSE IsCiphertext(out, job.chmod, job.size)
================================================================================
