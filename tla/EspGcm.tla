-------------------------------- MODULE EspGcm --------------------------------
(* The GCM contexts of the ESP32 crypto binding: one side encrypts, in one    *)
(* call or in pieces, the other decrypts what it is given under the name of   *)
(* it. Texts are sequences of blocks; a tag stands for all it authenticates.  *)
EXTENDS Naturals, Sequences, FiniteSets

CONSTANTS
    Nonces, Ads,    \* nonces and additional data in use
    Blocks,         \* blocks of text
    MaxBlocks,      \* longest text
    MaxSent,        \* bound on the texts encrypted
    TagCap          \* size of check_tag (16 in the code)

VARIABLES
    gcm,         \* the contexts: of the encrypting and of the decrypting side
    wire,      \* what has been encrypted, with its tag
    accepted   \* what the decrypting side was last told is authentic

vars == <<gcm, wire, accepted>>

Sides == {"enc", "dec"}
Texts == UNION {[1..n -> Blocks] : n \in 0..MaxBlocks}
Forged == <<"forged">>
Lens == {0, TagCap, TagCap + 1}

\* what the library computes over a context, and its answer to a length
TagOf(x) == <<x.nonce, x.ad, x.text>>
FinishOk(x, n) == x.phase \in {"ad", "text"} /\ n # 0

TypeOK ==
    /\ gcm \in [Sides -> [phase: {"none", "keyed", "start", "ad", "text", "done"},
                        nonce: Nonces \cup {0}, ad: Ads \cup {0}, text: Texts]]
    /\ wire \subseteq [nonce: Nonces, ad: Ads \cup {0}, text: Texts]
    /\ Len(accepted) \in {0, 3}

Zeroed == [phase |-> "none", nonce |-> 0, ad |-> 0, text |-> <<>>]
Init == gcm = [s \in Sides |-> Zeroed] /\ wire = {} /\ accepted = <<>>

----------------------------------------------------------------------------
Put(s, x) == gcm' = [gcm EXCEPT ![s] = x]
Keep == UNCHANGED <<wire, accepted>>

StateInit(s) ==
    /\ \/ Put(s, [Zeroed EXCEPT !.phase = "keyed"])
       \/ Put(s, Zeroed)
    /\ Keep

StateFree(s) == gcm[s].phase # "none" /\ Put(s, Zeroed) /\ Keep

\* starting again drops what was not finished
Started(x, n) == [x EXCEPT !.phase = "start", !.nonce = n, !.ad = 0, !.text = <<>>]
Start(s) ==
    /\ gcm[s].phase # "none"
    /\ \E n \in Nonces : Put(s, Started(gcm[s], n))
    /\ Keep

UpdateAd(s) ==
    /\ gcm[s].phase = "start"
    /\ \E a \in Ads : Put(s, [gcm[s] EXCEPT !.phase = "ad", !.ad = a])
    /\ Keep

\* the output of a decryption is the caller's before it is known to be authentic
Update(s) ==
    /\ gcm[s].phase \in {"ad", "text"} /\ Len(gcm[s].text) < MaxBlocks
    /\ \E b \in Blocks : Put(s, [gcm[s] EXCEPT !.phase = "text", !.text = Append(@, b)])
    /\ Keep

Sent(x) == /\ wire' = wire \cup {[nonce |-> x.nonce, ad |-> x.ad, text |-> x.text]}
           /\ Cardinality(wire') <= MaxSent

\* a tag that would not fit is refused before the library is asked
Finish ==
    /\ \E n \in Lens : n <= TagCap /\ FinishOk(gcm["enc"], n)
    /\ Put("enc", [gcm["enc"] EXCEPT !.phase = "done"])
    /\ Sent(gcm["enc"]) /\ UNCHANGED accepted

\* the tags the decrypting side can be given: what was sent, or anything else
Offered == {<<w.nonce, w.ad, w.text>> : w \in wire} \cup {Forged}

\* mutant: the library's success is taken for the tag's
AuthenticFinish(x, n, tag) == n <= TagCap /\ FinishOk(x, n)

\* the library's own tag, compared over the length the caller gave
Authentic(x, n, tag) == n <= TagCap /\ FinishOk(x, n) /\ TagOf(x) = tag

Accept(x, n, tag) == accepted' = IF Authentic(x, n, tag) THEN TagOf(x) ELSE <<>>

FinishDecrypt ==
    /\ gcm["dec"].phase \in {"ad", "text"}
    /\ \E n \in Lens, tag \in Offered :
          /\ Accept(gcm["dec"], n, tag)
          /\ Put("dec", IF n > TagCap THEN gcm["dec"] ELSE [gcm["dec"] EXCEPT !.phase = "done"])
    /\ UNCHANGED wire

\* state_encrypt and state_decrypt: all of it in one call, on a context that
\* may be in the middle of another text; a failure leaves it wherever it was
Whole(x, n, a, text) == [Started(x, n) EXCEPT !.phase = "done", !.ad = a, !.text = text]
Abandoned(x, n, a) == {Started(x, n), [Started(x, n) EXCEPT !.phase = "ad", !.ad = a]}

EncryptWhole ==
    /\ gcm["enc"].phase # "none"
    /\ \E n \in Nonces, a \in Ads, text \in Texts :
          \/ Put("enc", Whole(gcm["enc"], n, a, text)) /\ Sent(Whole(gcm["enc"], n, a, text))
          \/ \E x \in Abandoned(gcm["enc"], n, a) : Put("enc", x) /\ UNCHANGED wire
    /\ UNCHANGED accepted

DecryptWhole ==
    /\ gcm["dec"].phase # "none"
    /\ \E n \in Nonces, a \in Ads, text \in Texts :
          \/ /\ Put("dec", Whole(gcm["dec"], n, a, text))
             /\ \E l \in Lens, tag \in Offered :
                   Accept([Whole(gcm["dec"], n, a, text) EXCEPT !.phase = "text"], l, tag)
          \/ \E x \in Abandoned(gcm["dec"], n, a) : Put("dec", x) /\ accepted' = <<>>
    /\ UNCHANGED wire

Next ==
    \/ \E s \in Sides : StateInit(s) \/ StateFree(s) \/ Start(s) \/ UpdateAd(s) \/ Update(s)
    \/ Finish \/ FinishDecrypt \/ EncryptWhole \/ DecryptWhole

Spec == Init /\ [][Next]_vars

----------------------------------------------------------------------------
\* What the decrypting side is told is authentic was encrypted just so: in one
\* call or in pieces, after attempts given up in the middle, and whatever
\* length of tag the caller asked for.
AcceptedIsAuthentic == accepted # <<>> =>
    [nonce |-> accepted[1], ad |-> accepted[2], text |-> accepted[3]] \in wire
=============================================================================
