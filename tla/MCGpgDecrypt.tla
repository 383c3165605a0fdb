---------------------------- MODULE MCGpgDecrypt ----------------------------
(***************************************************************************)
(* Programs for gpg: it gives up before it reads the key, with and without *)
(* a word; it reads the key and fails; it decrypts, with more diagnostics  *)
(* than the pipe holds before and after it reads the key.                  *)
(***************************************************************************)
EXTENDS GpgDecrypt

GivesUp == {<<>>, <<"text">>, <<"text", "text", "text">>}
Fails == {<<"readKey", "seskey", "text">>}
Decrypts ==
  {<<"readKey", "seskey", "plain", "plain">>,
   <<"text", "text", "text", "readKey", "seskey", "text", "plain">>,
   <<"text", "readKey", "seskey", "seskey", "text", "text", "plain", "text">>}

TextPrograms == GivesUp \cup Fails \cup Decrypts

(* A diagnostic quotes a name that is not UTF-8.                           *)
BytePrograms ==
  {<<"bytes">>, <<"text", "bytes", "text">>,
   <<"readKey", "seskey", "bytes", "text", "text", "plain", "text">>}

AllPrograms == TextPrograms \cup BytePrograms
=============================================================================
