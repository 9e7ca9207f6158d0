----------------------------- MODULE MCQuoteQueue -----------------------------
(* Small instances of QuoteQueue for TLC.                                    *)
EXTENDS QuoteQueue

(* What comes after a read that was too late is not followed.                *)
Timely == ~swept
=============================================================================
