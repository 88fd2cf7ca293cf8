-------------------------------- MODULE EspPsa --------------------------------
(* The one-shot calls of the ESP32 crypto binding: tasks that work at the     *)
(* same time, each with a key slot of the PSA library, a scratch buffer from  *)
(* the heap, or a context of its own that it must give back on every path.    *)
(* Which stages a call goes through, and in which order, is its code's.       *)
EXTENDS Naturals, Sequences, FiniteSets

CONSTANTS
    Tasks,
    Slots,      \* key slots of the PSA library
    Buffers     \* scratch buffers the heap has room for

VARIABLES
    build,   \* onChip: ESP_PLATFORM; newLibrary: MBEDTLS_MAJOR_VERSION >= 4
    ready,   \* initialized, in espz_psa_init
    keys,    \* tasks that hold a key slot
    heap,    \* tasks that hold a scratch buffer
    ctx,     \* tasks that hold a GCM or public-key context
    pc,      \* the call of each task: operation and the stages ahead
    out,     \* what the task's output buffer holds
    last     \* the result of its last call

vars == <<build, ready, keys, heap, ctx, pc, out, last>>

\* An operation: its stages, what it leaves in the output when it succeeds, and
\* what it may leave there when its work fails: some calls have the library
\* write to a buffer of their own, others give it the caller's.
Op(stages, done, spoilt) == [at |-> stages, done |-> done, spoilt |-> spoilt]

AeadEncrypt == Op(<<"init", "import", "buffer", "work", "end">>, "done", {"old"})
AeadDecrypt == Op(<<"init", "import", "buffer", "work", "end">>, "done", {"old", "torn"})

\* on the chip AES-GCM does without a key slot
GcmEncryptDirect == Op(<<"context", "work", "end">>, "done", {"old", "torn"})
GcmDecryptDirect == Op(<<"context", "work", "end">>, "done", {"old", "torn"})
GcmEncrypt == IF build.onChip THEN GcmEncryptDirect ELSE AeadEncrypt
GcmDecrypt == IF build.onChip THEN GcmDecryptDirect ELSE AeadDecrypt

\* the key is encoded to a buffer and imported from there, and with an older
\* library imported to a context; there is no output
RsaVerify    == Op(<<"init", "encode", "importEncoded", "work", "end">>, "old", {"old"})
RsaVerifyOld == Op(<<"context", "work", "end">>, "old", {"old"})

Generate    == Op(<<"init", "import", "work", "end">>, "done", {"old", "torn"})
Recover     == Op(<<"init", "import", "work", "end">>, "done", {"old", "torn"})
Agree       == Op(<<"init", "import", "work", "end">>, "done", {"old", "torn"})
RandomBytes == Op(<<"init", "work", "end">>, "done", {"zero"})

Operations == [encrypt |-> AeadEncrypt, decrypt |-> AeadDecrypt,
               gcmEncrypt |-> GcmEncrypt, gcmDecrypt |-> GcmDecrypt,
               rsaVerify |-> IF build.newLibrary THEN RsaVerify ELSE RsaVerifyOld,
               generate |-> Generate, recover |-> Recover, agree |-> Agree,
               random |-> RandomBytes]
Ops == DOMAIN Operations
Outs == {"old", "zero", "torn", "done"}
Rest == [op |-> "none", at |-> <<>>]

TypeOK ==
    /\ ready \in BOOLEAN
    /\ keys \subseteq Tasks /\ heap \subseteq Tasks /\ ctx \subseteq Tasks
    /\ \A t \in Tasks : pc[t].op \in Ops \cup {"none"}
    /\ out \in [Tasks -> Outs] /\ last \in [Tasks -> {"none", "ok", "error"}]

Init ==
    /\ build \in [onChip: BOOLEAN, newLibrary: BOOLEAN]
    /\ ready = FALSE /\ keys = {} /\ heap = {} /\ ctx = {}
    /\ pc = [t \in Tasks |-> Rest]
    /\ out = [t \in Tasks |-> "old"] /\ last = [t \in Tasks |-> "none"]

----------------------------------------------------------------------------
At(t, stage) == pc[t].op # "none" /\ Head(pc[t].at) = stage
Advance(t)   == pc' = [pc EXCEPT ![t].at = Tail(@)] /\ UNCHANGED last
Return(t, r) == pc' = [pc EXCEPT ![t].at = <<"end">>] /\ last' = [last EXCEPT ![t] = r]

Call(t, op) ==
    /\ pc[t] = Rest
    /\ pc' = [pc EXCEPT ![t] = [op |-> op, at |-> Operations[op].at]]
    /\ out' = [out EXCEPT ![t] = "old"] /\ last' = [last EXCEPT ![t] = "none"]
    /\ UNCHANGED <<build, ready, keys, heap, ctx>>

\* mutant: a failed generator leaves what the caller had in the buffer
BlankBare(t) == UNCHANGED out

\* random_bytes clears the buffer when it cannot fill it
Blank(t) == out' = IF pc[t].op = "random" THEN [out EXCEPT ![t] = "zero"] ELSE out

\* espz_psa_init: the flag is set by whoever succeeds, and read by all
PsaInit(t) ==
    /\ At(t, "init")
    /\ \/ ready' = TRUE /\ Advance(t) /\ UNCHANGED out
       \/ ~ready /\ UNCHANGED ready /\ Return(t, "error") /\ Blank(t)
    /\ UNCHANGED <<build, keys, heap, ctx>>

\* psa_import_key or psa_generate_key, if there is a slot
ImportKey(t) ==
    /\ At(t, "import")
    /\ \/ Cardinality(keys) < Slots /\ keys' = keys \cup {t} /\ Advance(t)
       \/ UNCHANGED keys /\ Return(t, "error")
    /\ UNCHANGED <<build, ready, heap, ctx, out>>

\* the RSA key is encoded before there is a slot to give back, and the
\* encoding is freed whether it could be imported or not
EncodeKey(t) ==
    /\ At(t, "encode")
    /\ \/ Cardinality(heap) < Buffers /\ heap' = heap \cup {t} /\ Advance(t)
       \/ UNCHANGED heap /\ Return(t, "error")
    /\ UNCHANGED <<build, ready, keys, ctx, out>>

ImportEncoded(t) ==
    /\ At(t, "importEncoded")
    /\ \/ Cardinality(keys) < Slots /\ keys' = keys \cup {t} /\ Advance(t)
       \/ UNCHANGED keys /\ Return(t, "error")
    /\ heap' = heap \ {t}
    /\ UNCHANGED <<build, ready, ctx, out>>

\* mutant: without a buffer the call just returns
AllocateBare(t) ==
    /\ At(t, "buffer")
    /\ \/ Cardinality(heap) < Buffers /\ heap' = heap \cup {t} /\ Advance(t)
       \/ UNCHANGED heap /\ Return(t, "error")
    /\ UNCHANGED <<build, ready, keys, ctx, out>>

\* calloc of the combined text and tag; without it the key goes back
Allocate(t) ==
    /\ At(t, "buffer")
    /\ \/ Cardinality(heap) < Buffers /\ heap' = heap \cup {t} /\ UNCHANGED keys /\ Advance(t)
       \/ UNCHANGED heap /\ keys' = keys \ {t} /\ Return(t, "error")
    /\ UNCHANGED <<build, ready, ctx, out>>

\* esp_aes_gcm_init and setkey; mbedtls_pk_setup, import and checks: what was
\* set up is freed when a later part of it fails
MakeContext(t) ==
    /\ At(t, "context")
    /\ \/ ctx' = ctx \cup {t} /\ Advance(t)
       \/ UNCHANGED ctx /\ Return(t, "error")
    /\ UNCHANGED <<build, ready, keys, heap, out>>

\* The work, and after it the slot, the buffer and the context go back. It
\* fails too if the library wrote less than it should have.
Work(t) ==
    /\ At(t, "work")
    /\ \/ Return(t, "ok") /\ out' = [out EXCEPT ![t] = Operations[pc[t].op].done]
       \/ Return(t, "error") /\ \E o \in Operations[pc[t].op].spoilt : out' = [out EXCEPT ![t] = o]
    /\ keys' = keys \ {t} /\ heap' = heap \ {t} /\ ctx' = ctx \ {t}
    /\ UNCHANGED <<build, ready>>

\* the caller looks at the result
End(t) ==
    /\ At(t, "end") /\ pc' = [pc EXCEPT ![t] = Rest]
    /\ UNCHANGED <<build, ready, keys, heap, ctx, out, last>>

Next == \E t \in Tasks :
    \/ \E op \in Ops : Call(t, op)
    \/ PsaInit(t) \/ ImportKey(t) \/ EncodeKey(t) \/ ImportEncoded(t) \/ Allocate(t)
    \/ MakeContext(t) \/ Work(t) \/ End(t)

Spec == Init /\ [][Next]_vars

----------------------------------------------------------------------------
\* A call that is over, however it ended, has given back its key slot, its
\* buffer and its context: the slots are few, and a leak on one error path of
\* one call denies them to every other.
NothingLeaks == \A t \in Tasks : pc[t].op = "none" \/ At(t, "end") => t \notin keys \cup heap \cup ctx

\* Success means that the output is complete; an encryption that fails has
\* not touched it, and a generator that fails has left no stale bytes in it
\* that could pass for random ones.
OutputIsHonest == \A t \in Tasks : pc[t].op # "none" /\ At(t, "end") =>
    IF last[t] = "ok" THEN out[t] = "done" \/ pc[t].op = "rsaVerify"
    ELSE CASE pc[t].op = "encrypt" -> out[t] = "old"
           [] pc[t].op = "random"  -> out[t] = "zero"
           [] OTHER -> TRUE
=============================================================================
