---------------------------- MODULE PrivateUpload ----------------------------
(***************************************************************************)
(* The signed requests of private_upload_v1.go: an upload, and the refresh *)
(* of its authority.  A request carries its fields, its body and the       *)
(* signature; fields are byte texts, a body is known by its name.  Of the  *)
(* fields of a candidate that is to be refused, the code lets a row change *)
(* only method, authority, path, nonce, audience and digest, and takes the *)
(* others from the golden request; here each of them may change.           *)
(***************************************************************************)
EXTENDS Signature, Framing

CONSTANTS Method, Domain, StableDomain,    \* [operation -> bytes]
          Path,
          Authorities,       \* canonical host names, with or without a port
          UploadNonces, Audiences,
          Digest, Length,    \* [body -> bytes]
          Content            \* [body -> [field -> bytes]]: the bodies that a refresh may have

Operations == {"upload", "refresh"}

\* What a server is told: the request line, and the headers of the operation.
Carried ==
    [upload |-> {"method", "authority", "path", "timestamp", "nonce", "client", "key",
                 "audience", "digest", "length", "media", "filename", "expires",
                 "request_id"},
     refresh |-> {"method", "authority", "path", "timestamp", "nonce", "client", "key",
                  "digest", "length", "request_id"}]

\* The body of a refresh is JSON in its one spelling.
BodyFields == {"handle", "batch", "ttl", "expires", "request_id"}

Fields == [upload |-> Carried["upload"], refresh |-> Carried["refresh"] \cup BodyFields]

\* (a slip: an upload may be sent again under another request id)
SignedFields_NoRequestId ==
    [upload |-> <<"method", "authority", "path", "timestamp", "nonce", "client", "key",
                  "audience", "digest", "length", "media", "filename", "expires">>,
     refresh |-> <<"method", "authority", "path", "timestamp", "nonce", "client", "key",
                   "digest", "length", "request_id">>]

SignedFields ==
    [upload |-> <<"method", "authority", "path", "timestamp", "nonce", "client", "key",
                  "audience", "digest", "length", "media", "filename", "expires",
                  "request_id">>,
     refresh |-> <<"method", "authority", "path", "timestamp", "nonce", "client", "key",
                   "digest", "length", "request_id">>]

\* (a slip: the idempotency key is not part of what is asked for)
StableFields_NoRequestId ==
    [upload |-> <<"client", "audience", "digest", "length", "media", "filename", "expires">>,
     refresh |-> <<"client", "handle", "batch", "ttl", "expires">>]

\* What makes two requests attempts at one: not when, nor to which host, nor with which
\* key they are sent.
StableFields ==
    [upload |-> <<"client", "audience", "digest", "length", "media", "filename", "expires",
                  "request_id">>,
     refresh |-> <<"client", "handle", "batch", "ttl", "expires", "request_id">>]

Selected(request, names) == [i \in DOMAIN names |-> request[names[i]]]

CanonicalBytes(operation, request) ==
    Framed(Domain[operation], Selected(request, SignedFields[operation]))
StableBytes(operation, request) ==
    Framed(StableDomain[operation], Selected(request, StableFields[operation]))

\* What a request says of its body is so.
Consistent(operation, request) ==
    /\ request.digest = Digest[request.body] /\ request.length = Length[request.body]
    /\ operation = "refresh" =>
          /\ request.body \in DOMAIN Content
          /\ \A field \in BodyFields : request[field] = Content[request.body][field]

\* (a slip: the body is hashed before the signature is looked at)
RejectClass_BodyFirst(operation, request) ==
    FirstOf(<<
      Unless(request.method = Method[operation] /\ request.path = Path, "method_path"),
      Unless(~request.forbidden, "forbidden_header"),
      Unless(request.authority \in Authorities, "authority"),
      Unless(request.nonce \in UploadNonces, "nonce"),
      Unless(operation = "upload" => request.audience \in Audiences, "audience_key_id"),
      Unless(Digest[request.body] = request.digest, "body_digest"),
      VerifySignature(request.signature, CanonicalBytes(operation, request))>>)

\* What an operation forbids is a header of the other one, or a bearer token.
RejectClass(operation, request) ==
    FirstOf(<<
      Unless(request.method = Method[operation] /\ request.path = Path, "method_path"),
      Unless(~request.forbidden, "forbidden_header"),
      Unless(request.authority \in Authorities, "authority"),
      Unless(request.nonce \in UploadNonces, "nonce"),
      Unless(operation = "upload" => request.audience \in Audiences, "audience_key_id"),
      VerifySignature(request.signature, CanonicalBytes(operation, request)),
      Unless(Digest[request.body] = request.digest, "body_digest")>>)

Precedence == <<"method_path", "forbidden_header", "authority", "nonce",
                "audience_key_id", "signature_encoding", "signature_scalar",
                "signature_malleability", "signature_mismatch", "body_digest">>
=============================================================================
