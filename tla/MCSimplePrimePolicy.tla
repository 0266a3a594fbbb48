------------------------- MODULE MCSimplePrimePolicy -------------------------
EXTENDS SimplePrimePolicy

\* Squares and cubes of primes, products of up to nine primes, primes above the limit.
SmallNumbers == 1 .. 600

=============================================================================
