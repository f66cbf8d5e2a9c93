------------------------------ MODULE MCPriceSync ------------------------------
EXTENDS PriceSync

\* The catalogue changes the price once.
MCOnce == <<"low", "high">>
=============================================================================
