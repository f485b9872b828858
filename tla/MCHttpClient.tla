----------------------------- MODULE MCHttpClient -----------------------------
EXTENDS HttpClient
===============================================================================
