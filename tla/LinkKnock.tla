------------------------------ MODULE LinkKnock ------------------------------
(***************************************************************************)
(* The knock of crid_link_knock.go that asks a server for a link to the    *)
(* resource of a CRID: which requests a client sends, and what it makes of *)
(* the reply.  A link is a text that is kept by its parts; the transport   *)
(* codec (TransportCodec) and the issuer's signature are predicates of it. *)
(***************************************************************************)
EXTENDS Crid, Sequences

CONSTANTS UserAgentMaxBytes,
          LongTexts            \* display strings of more than 128 code points

----------------------------------------------------------------------------
\* The request.

\* (a slip: a reserved row of the registry is good enough)
RequestGate_AnyRow(crid) ==
    FirstOf(<<ValueGate(crid),
              Unless(\E row \in Rows(crid) : row.length = crid.length, "version")>>)

\* A link that no client could verify is not asked for.
RequestGate(crid) ==
    FirstOf(<<ValueGate(crid),
              Unless(\E row \in Rows(crid) : /\ row.length = crid.length
                                             /\ row.status = "active", "version")>>)

\* A user agent is the sequence of the widths in bytes of its code points, and a
\* width of 0 stands for a character that keeps the whole user agent out.
Bytes(agent) ==
    LET sum[n \in 0..Len(agent)] == IF n = 0 THEN 0 ELSE sum[n - 1] + agent[n]
    IN  sum[Len(agent)]

\* Byte i (from 0) begins a code point; so does the end of the text.
RuneStart(agent, i) == \E n \in 0..Len(agent) : Bytes(SubSeq(agent, 1, n)) = i

\* (a slip: the byte before the cut is inspected)
Cut_Before(agent) ==
    CHOOSE c \in 1..UserAgentMaxBytes :
        /\ RuneStart(agent, c - 1)
        /\ \A d \in (c + 1)..UserAgentMaxBytes : ~RuneStart(agent, d - 1)

\* From the limit backwards to the first byte that begins a code point.
Cut(agent) == CHOOSE c \in 0..UserAgentMaxBytes :
                  /\ RuneStart(agent, c)
                  /\ \A d \in (c + 1)..UserAgentMaxBytes : ~RuneStart(agent, d)

\* The number of bytes of the user agent that are sent; 0 leaves the member out.
SentBytes(agent) ==
    IF \E i \in DOMAIN agent : agent[i] = 0 THEN 0
    ELSE IF Bytes(agent) <= UserAgentMaxBytes THEN Bytes(agent) ELSE Cut(agent)

----------------------------------------------------------------------------
\* Links.  What follows the origin up to the first "#" is nothing, a slash, a path,
\* a query, or more of the authority.

Locations == {"none", "slash", "path", "query", "authority"}
Link(parts) == [type |-> "link", link |-> parts]
CridText(crid) == [type |-> "crid", crid |-> crid]

SplitLink(link) ==
    FirstOf(<<Unless(link.origin /\ link.location # "authority", "origin"),
              Unless(link.location \in {"none", "slash"}, "path_or_query")>>)

\* (a slip: the fragment is decoded before the rest of the link is looked at)
OpenLink_FragmentFirst(link) ==
    FirstOf(<<Unless(link.transport, "transport"), SplitLink(link),
              Unless(link.signed /\ link.readable, "issuer_signature")>>)

\* The claims are read only once their signature has verified, and a resource key
\* that cannot be read is reported like a signature that does not verify.
OpenLink(link) ==
    FirstOf(<<SplitLink(link), Unless(link.transport, "transport"),
              Unless(link.signed /\ link.readable, "issuer_signature")>>)

\* Only an absent member passes; null is present and unequal.
InfoCridMatches(crid, ack) ==
    LET info == Field(ack, "redirectInfo")
    IN  Has(info, "crid") => Field(info, "crid") = CridText(crid)

\* A redirect that is no string, or the empty one, is missing.
LinkRejectClass(crid, ack) ==
    LET redirect == Field(ack, "redirectUrl")
    IN  IF redirect.type # "link" THEN "missing_redirect"
        ELSE FirstOf(<<OpenLink(redirect.link),
                       Unless(KeyMatches(crid, redirect.link.key), "crid_mismatch"),
                       Unless(InfoCridMatches(crid, ack), "info_crid_mismatch")>>)

RejectClasses == <<"missing_redirect", "origin", "path_or_query", "transport",
                   "issuer_signature", "crid_mismatch", "info_crid_mismatch">>

----------------------------------------------------------------------------
\* Display metadata.  Nothing in it fails; what cannot be used is absent.

InfoText(v) ==
    IF v.type = "string" /\ v.text \notin LongTexts THEN v.text ELSE ""

\* (a slip: the word is as good as the value)
Verified_Truthy(publisher) == Field(publisher, "verified").text = "true"

Verified(publisher) == Field(publisher, "verified") = Bool("true")

NoInfo == [id |-> "", expires |-> "", created |-> "", name |-> "", verified |-> FALSE]

Sanitize(info) ==
    LET publisher == Field(info, "publisher")
    IN  [id |-> InfoText(Field(info, "qurl_id")),
         expires |-> InfoText(Field(info, "expires_at")),
         created |-> InfoText(Field(info, "resource_created_at")),
         name |-> InfoText(Field(publisher, "name")),
         verified |-> Verified(publisher)]

----------------------------------------------------------------------------
\* Replies.

LinkIssued == "52600"
ClientResult ==
    [c \in {LinkIssued, "52601", "52602", "52603", "52604", "52605", "52606"} |->
        CASE c = LinkIssued -> "link"
          [] c = "52601" -> "unavailable" [] c = "52602" -> "not_found"
          [] c = "52603" -> "rate_limited" [] c = "52604" -> "offline"
          [] c = "52605" -> "closed" [] OTHER -> "invalid_request"]

Answer(result) == [result |-> result, class |-> Pass, link |-> <<>>, info |-> NoInfo]
Rejected(class) == [result |-> "", class |-> class, link |-> <<>>, info |-> NoInfo]

\* The success codes of an ordinary knock open nothing here.
IsCode(code) == code.type = "string" /\ code.text \notin {"", "0"}

InterpretACK(crid, ack) ==
    LET code == Field(ack, "errCode")
        class == LinkRejectClass(crid, ack)
    IN  CASE ~IsCode(code) -> Answer("protocol_violation")
          [] IsCode(code) /\ code.text \notin DOMAIN ClientResult -> Answer("server_error")
          [] IsCode(code) /\ code.text \in DOMAIN ClientResult \ {LinkIssued} ->
                Answer(ClientResult[code.text])
          [] OTHER -> IF class # Pass THEN Rejected(class)
                      ELSE [Answer("link") EXCEPT
                              !.link = <<Field(ack, "redirectUrl").link>>,
                              !.info = Sanitize(Field(ack, "redirectInfo"))]

\* ACK is 2 and COK is 7; a cookie is an answer, anything else is the transport's.
InterpretReply(type, crid, ack) ==
    CASE type = 2 -> InterpretACK(crid, ack)
      [] type = 7 -> Answer("busy")
      [] OTHER -> Rejected("transport_error")
=============================================================================
