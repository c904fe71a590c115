-------------------------------- MODULE Crypt --------------------------------
(* enc | dec: the two programs at the ends of a pipe, with the same options. A *)
(* byte has two bits; a block cipher permutes each byte of a block, a stream   *)
(* cipher's keystream is read off the same permutation.                        *)
EXTENDS Integers, FiniteSets, SequencesExt

CONSTANTS Options,   \* [n, std, mode, bits, key, iv, r], key the lengths given with -k, -e and -f
          Unset, Bad,  \* no option; a text that is no number, not hexadecimal or not to be read
          Messages, Noise,  \* enc's inputs; what rand.Read may fill in
          Foreign,   \* inputs of dec that no enc has written
          Cipher,    \* a permutation of the bytes
          KeyLengths, BlockSizes  \* of a standard

VARIABLES opts, msg,
          whole,     \* enc's standard input is a file, not a pipe
          text,      \* of it, what is not read
          pipe, got, \* what dec has to read; what it has written
          phase,     \* of a Role: "start", "block", "stream" or "exit"
          status,
          args_r,    \* args.r of a Role, cleared when the block is in or out
          prev,      \* the block before, for the chain
          off        \* bytes of keystream used
vars == <<opts, msg, whole, text, pipe, got, phase, status, args_r, prev, off>>
given == <<opts, msg, whole>>
Role == {"enc", "dec"}

BlockSize == BlockSizes[opts.std]
Zeros(n) == [i \in 1..n |-> 0]
Xor(x, y) == 2 * (((x \div 2) + (y \div 2)) % 2) + ((x + y) % 2)
XorAll(s, t) == [i \in DOMAIN s |-> Xor(s[i], t[i])]
Inverted == [y \in DOMAIN Cipher |-> CHOOSE x \in DOMAIN Cipher : Cipher[x] = y]

Init ==
    /\ opts \in Options /\ whole \in BOOLEAN
    /\ got = <<>>
    /\ \/ msg \in Messages /\ text = msg /\ pipe = <<>> /\ phase = [x \in Role |-> "start"]
       \/ /\ msg = <<>> /\ text = <<>> /\ pipe \in Foreign
          /\ phase = [enc |-> "exit", dec |-> "start"]
    /\ status = [x \in Role |-> 0] /\ args_r = [x \in Role |-> opts.r]
    /\ prev = [x \in Role |-> <<>>] /\ off = [x \in Role |-> 0]
-----------------------------------------------------------------------------
mustparsealg == opts.n = 3 /\ opts.bits # Bad
\* -k, -e and -f: exactly one.
mustkey == /\ Cardinality({i \in DOMAIN opts.key : opts.key[i] # Unset}) = 1
           /\ \A i \in DOMAIN opts.key : opts.key[i] # Bad
KeyLength == CHOOSE n \in ToSet(opts.key) : n # Unset
SetCipher == opts.std \in DOMAIN KeyLengths /\ KeyLength \in KeyLengths[opts.std]
mustiv == opts.iv = <<>> \/ Len(opts.iv) = BlockSize
Alg == KeyLength * 8 = opts.bits /\ SetCipher /\ mustiv
Accepted == mustparsealg /\ mustkey /\ Alg
\* cfb has constructors but no mode.
SetMode == CASE opts.mode \in {"cbc", "ecb"} -> "block"
             [] opts.mode \in {"ctr", "ofb"} -> "stream"
             [] OTHER -> "exit"

Exit(x, code) == phase' = [phase EXCEPT ![x] = "exit"] /\ status' = [status EXCEPT ![x] = code]

Start(x) ==
    /\ phase[x] = "start"
    /\ IF Accepted
       THEN /\ phase' = [phase EXCEPT ![x] = SetMode]
            /\ prev' = [prev EXCEPT ![x] = IF opts.iv = <<>> THEN Zeros(BlockSize) ELSE opts.iv]
            /\ UNCHANGED status
       ELSE Exit(x, 1) /\ UNCHANGED prev
    /\ UNCHANGED <<given, text, pipe, got, args_r, off>>
-----------------------------------------------------------------------------
Block(s, i) == SubSeq(s, (i - 1) * BlockSize + 1, i * BlockSize)
Blocks(s) == 1..(Len(s) \div BlockSize)
\* CryptBlocks of the two modes; the chain goes on over calls.
EncryptBlock(b, before) ==
    LET x == IF opts.mode = "cbc" THEN XorAll(b, before) ELSE b
    IN  [i \in DOMAIN b |-> Cipher[x[i]]]
DecryptBlock(b, before) ==
    LET x == [i \in DOMAIN b |-> Inverted[b[i]]]
    IN  IF opts.mode = "cbc" THEN XorAll(x, before) ELSE x
Encrypted(s) ==
    LET one == EncryptBlock(Block(s, 1), prev["enc"])
    IN  IF Len(s) = BlockSize THEN one ELSE one \o EncryptBlock(Block(s, 2), one)
Decrypted(s) ==
    FlattenSeq([i \in Blocks(s) |-> DecryptBlock(Block(s, i), IF i = 1 THEN prev["dec"] ELSE Block(s, i - 1))])
LastBlock(s) == Block(s, Len(s) \div BlockSize)

\* pkcs7: a full block gets a block of zeros.
Pad(m) == LET ps == BlockSize - (Len(m) % BlockSize) IN m \o [i \in 1..ps |-> ps % BlockSize]
PadAsWritten(m) == m[Len(m)]           \* mutant: a block of zeros is no padding
PadLength(m) == IF m[Len(m)] = 0 THEN BlockSize ELSE m[Len(m)]
Unpaddable(m) == /\ m[Len(m)] <= BlockSize
                 /\ \A i \in (Len(m) - PadLength(m) + 1)..Len(m) : m[i] = m[Len(m)]
Unpad(m) == SubSeq(m, 1, Len(m) - PadLength(m))

\* What the next Read of enc returns: the random block before anything else.
Reads(most) ==
    IF args_r["enc"] THEN {b \in Noise : Len(b) = BlockSize}
    ELSE {SubSeq(text, 1, n) : n \in {i \in 1..Len(text) : i <= most /\ (whole => i = most \/ i = Len(text))}}
EncRead(b) == IF args_r["enc"] THEN args_r' = [args_r EXCEPT !["enc"] = FALSE] /\ UNCHANGED text
              ELSE text' = SubSeq(text, Len(b) + 1, Len(text)) /\ UNCHANGED args_r

\* encrypt: every read is padded.
Encrypt ==
    /\ phase["enc"] = "block" /\ phase["dec"] # "exit"
    /\ \E b \in Reads(BlockSize) :
        /\ Len(b) <= BlockSize /\ EncRead(b)
        /\ LET p == Encrypted(Pad(b)) IN pipe' = pipe \o p /\ prev' = [prev EXCEPT !["enc"] = LastBlock(p)]
    /\ UNCHANGED <<given, got, phase, status, off>>

Keyed(x, s) == [i \in DOMAIN s |-> Xor(s[i], Cipher[(off[x] + i) % 4])]
Used(x, s) == off' = [off EXCEPT ![x] = @ + Len(s)]
EncStream ==
    /\ phase["enc"] = "stream" /\ phase["dec"] # "exit"
    /\ \E b \in Reads(Len(text)) : EncRead(b) /\ pipe' = pipe \o Keyed("enc", b) /\ Used("enc", b)
    /\ UNCHANGED <<given, got, phase, status, prev>>

EncEnds ==
    /\ phase["enc"] \in {"block", "stream"} /\ ~args_r["enc"] /\ text = <<>>
    /\ Exit("enc", 0)
    /\ UNCHANGED <<given, text, pipe, got, args_r, prev, off>>
\* A write when the reader is gone.
Killed ==
    /\ phase["enc"] \in {"block", "stream"} /\ (args_r["enc"] \/ text # <<>>) /\ phase["dec"] = "exit"
    /\ Exit("enc", 1)
    /\ UNCHANGED <<given, text, pipe, got, args_r, prev, off>>
-----------------------------------------------------------------------------
\* A read takes what is in the pipe, two blocks at most.
Chunk == SubSeq(pipe, 1, IF Len(pipe) < 2 * BlockSize THEN Len(pipe) ELSE 2 * BlockSize)
Taken(s) == pipe' = SubSeq(pipe, Len(s) + 1, Len(pipe))
\* Under a block nothing is done with what was read; beyond it CryptBlocks panics.
Short ==
    /\ phase["dec"] = "block" /\ Chunk # <<>> /\ Len(Chunk) < BlockSize
    /\ Taken(Chunk)
    /\ UNCHANGED <<given, text, got, phase, status, args_r, prev, off>>
Panic ==
    /\ phase["dec"] = "block" /\ Len(Chunk) > BlockSize /\ Len(Chunk) < 2 * BlockSize
    /\ Taken(Chunk) /\ Exit("dec", 2)
    /\ UNCHANGED <<given, text, got, args_r, prev, off>>
Decrypt ==
    /\ phase["dec"] = "block" /\ Len(Chunk) \in {BlockSize, 2 * BlockSize}
    /\ Taken(Chunk) /\ prev' = [prev EXCEPT !["dec"] = LastBlock(Chunk)]
    /\ LET m == Decrypted(Chunk) IN
        CASE ~Unpaddable(m) -> Exit("dec", 1) /\ UNCHANGED <<got, args_r>>
          [] Unpaddable(m) /\ args_r["dec"] ->
                args_r' = [args_r EXCEPT !["dec"] = FALSE] /\ UNCHANGED <<got, phase, status>>
          [] OTHER -> got' = got \o Unpad(m) /\ UNCHANGED <<args_r, phase, status>>
    /\ UNCHANGED <<given, text, off>>

\* stream discards a block of plaintext first.
DecStream ==
    /\ phase["dec"] = "stream" /\ pipe # <<>>
    /\ \E n \in 1..Len(pipe) : LET s == SubSeq(pipe, 1, n)  m == Keyed("dec", s) IN
        /\ Taken(s) /\ Used("dec", s)
        /\ got' = IF args_r["dec"] THEN got \o SubSeq(m, BlockSize + 1 - off["dec"], n) ELSE got \o m
        /\ args_r' = [args_r EXCEPT !["dec"] = @ /\ off["dec"] + n < BlockSize]
    /\ UNCHANGED <<given, text, phase, status, prev>>
DecEnds ==
    /\ phase["dec"] \in {"block", "stream"} /\ pipe = <<>> /\ phase["enc"] = "exit"
    /\ Exit("dec", 0)
    /\ UNCHANGED <<given, text, pipe, got, args_r, prev, off>>

Next == (\E x \in Role : Start(x)) \/ Encrypt \/ EncStream \/ EncEnds \/ Killed
        \/ Short \/ Panic \/ Decrypt \/ DecStream \/ DecEnds
Spec == Init /\ [][Next]_vars
-----------------------------------------------------------------------------
Both == \A x \in Role : phase[x] = "exit"
Runs == mustparsealg /\ mustkey /\ Alg /\ SetMode # "exit"

\* When enc reads a file, or the cipher is a stream cipher, dec writes the message as
\* far as it has come, all of it at the end, however the pipe cuts the ciphertext and
\* whether or not a random block goes ahead (enc.go:264-327).
CryptRight ==
    msg # <<>> /\ (whole \/ opts.mode \in {"ctr", "ofb"}) =>
        /\ IsPrefix(got, msg)
        /\ Both => IF Runs THEN got = msg /\ status = [x \in Role |-> 0]
                   ELSE got = <<>> /\ \A x \in Role : status[x] = IF Accepted THEN 0 ELSE 1

\* "encrypts plaintext from stdin and outputs resulting ciphertext to stdout. It uses the
\* encryption alogrithm alg and padding algorithm PKCS#7" (enc.go:488).
PaddedAtEnd == Both /\ Runs /\ msg # <<>> => got = msg
=============================================================================
