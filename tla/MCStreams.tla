------------------------------ MODULE MCStreams ------------------------------
(* Messages of up to five bytes: two in a row for one inflate object, one for *)
(* brotli, and one in raw format, which the object has to find out.           *)
EXTENDS StreamPipe

Sends(kind, full, plain) == [kind |-> kind, full |-> full, plain |-> plain]

MCSenders ==
  {<<Sends("zlib", FALSE, <<"a", "a", "a">>), Sends("zlib", FALSE, <<"a", "b">>)>>,
   <<Sends("zlib", FALSE, <<"a", "b", "a", "b", "a">>)>>,
   <<Sends("zlib", TRUE, <<"a", "b", "b">>)>>,
   <<Sends("brotli", FALSE, <<"a", "b", "a", "b">>)>>,
   <<Sends("brotli", TRUE, <<"a", "a", "b">>)>>}
MCRawSenders == {<<Sends("raw", FALSE, <<"a", "b", "b">>)>>}
=============================================================================
