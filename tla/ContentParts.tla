----------------------------- MODULE ContentParts -----------------------------
(***************************************************************************)
(* Values that cross the boundary between channels and agents              *)
(* (crates/anyclaw-sdk-types): the key of a conversation                   *)
(* (session_key.rs) and the two forms of a piece of content, URL based     *)
(* towards channels and ACP blocks towards agents (acp.rs).                *)
(*                                                                         *)
(* The parts of a key are sequences of symbols, one of them ":".  An       *)
(* optional value is a set with at most one element.                       *)
(***************************************************************************)
EXTENDS Integers, Sequences, SequencesExt

\* A map with an entry for key, in place of the one it had, if any.
Replaced(f, key, v) == [k \in {key} \cup DOMAIN f |-> IF k = key THEN v ELSE f[k]]

NewSessionKey(channel, kind, peer) == channel \o <<":">> \o kind \o <<":">> \o peer

Colons(key) == {i \in DOMAIN key : key[i] = ":"}

\* split(':').next(): what stands before the first colon.
ChannelName(key) ==
    IF Colons(key) = {} THEN key
    ELSE SubSeq(key, 1, (CHOOSE i \in Colons(key) : \A j \in Colons(key) : i <= j) - 1)

\* FromStr: {} is the error.
ParseSessionKey(s) == IF \E i, j \in Colons(s) : i # j THEN {s} ELSE {}

-----------------------------------------------------------------------------
(* A URL: an address, data: with mime type, encoding and payload, or data:   *)
(* without the comma that separates them.                                    *)

Address(u) == [scheme |-> "http", mime |-> "", base64 |-> FALSE, data |-> u]
DataUrl(mime, enc, data) == [scheme |-> "data", mime |-> mime, base64 |-> enc, data |-> data]
BadDataUrl(u) == [scheme |-> "data without comma", mime |-> "", base64 |-> FALSE, data |-> u]
NoUrl == Address("")

Part(type, text, url, filename, mime) ==
    [type |-> type, text |-> text, url |-> url, filename |-> filename, mime |-> mime]
TextPart(t) == Part("text", t, NoUrl, {}, {})
ImagePart(u) == Part("image", "", u, {}, {})
FilePart(u, filename, mime) == Part("file", "", u, filename, mime)
AudioPart(u, mime) == Part("audio", "", u, {}, mime)

\* A block: data is the payload itself, uri where to fetch it.
Block(type, text, data, uri, name, mime) ==
    [type |-> type, text |-> text, data |-> data, uri |-> uri, name |-> name, mime |-> mime]

ContentPartToBlock(p) ==
    CASE p.type = "text"  -> Block("text", p.text, NoUrl, {}, "", {})
      [] p.type = "image" ->
            IF p.url.scheme = "data" THEN Block("image", "", Address(p.url.data), {}, "", {p.url.mime})
            ELSE Block("image", "", NoUrl, {p.url}, "", {"image/png"})
      [] p.type = "file"  ->
            Block("resource_link", "", NoUrl, {p.url},
                  IF p.filename = {} THEN "file" ELSE CHOOSE n \in p.filename : TRUE, p.mime)
      [] p.type = "audio" ->
            Block("audio", "", p.url, {}, "", IF p.mime = {} THEN {"audio/mpeg"} ELSE p.mime)

\* An embedded resource gives a file without a name; an image without uri and a
\* block of a kind that is not known give an empty part.
ContentBlockToPart(b) ==
    CASE b.type = "text"          -> TextPart(b.text)
      [] b.type = "image"         -> ImagePart(IF b.uri = {} THEN NoUrl ELSE CHOOSE u \in b.uri : TRUE)
      [] b.type = "audio"         -> AudioPart(b.data, b.mime)
      [] b.type = "resource"      -> FilePart(CHOOSE u \in b.uri : TRUE, {}, b.mime)
      [] b.type = "resource_link" -> FilePart(CHOOSE u \in b.uri : TRUE, {b.name}, b.mime)
      [] OTHER                    -> TextPart("")
=============================================================================
